---- MODULE Spec2Model ----
(***************************************************************************)
(* A model of core.datamodel (src/datamodel.py): the DataModel derivation  *)
(* engine, its read-only proxy behaviour and the DataModelController write *)
(* interception with listener dispatch.                                    *)
(*                                                                         *)
(* Python values are records [t, s, l, d]: t is the value's class name, s  *)
(* the payload of a scalar, l the items of a list, d the items of a dict.  *)
(* Exceptions are the strings "TypeError", "ValueError", "AttributeError", *)
(* "KeyError" and "IndexError"; "none" means the call returned.            *)
(***************************************************************************)
EXTENDS Integers, Sequences, FiniteSets, TLC

\* Longest list a controller attribute holds.
MaxLen == 2
\* Most listener registrations a controller holds.
MaxListeners == 1
\* Deepest nesting of assignments made from inside listeners that is
\* followed; the interpreter ends a deeper one with RuntimeError (maximum
\* recursion depth exceeded).
MaxDepth == 3

----------------------------------------------------------------------------
\* Python values

Scalar(t, s) == [t |-> t, s |-> s, l |-> <<>>, d |-> <<>>]

ListValue(items) == [t |-> "list", s |-> "", l |-> items, d |-> <<>>]

DictValue(items) == [t |-> "dict", s |-> "", l |-> <<>>, d |-> items]

\* A key that __data does not hold.
Absent == Scalar("absent", "")

\* The controller instance itself (what a root-bound rule reads).
SelfRef(c) == Scalar(c, "self")

\* isinstance(value, type) for the builtin types and DataModel.
IsInstance(value, type) == value.t = type

\* x in y for two Python str: substring containment.
StrContains(y, x) ==
    \E i \in 1..(Len(y) - Len(x) + 1) : SubSeq(y, i, i + Len(x) - 1) = x

----------------------------------------------------------------------------
\* Rules

NoBinding == [kind |-> "none", name |-> "", names |-> <<>>]

One(name) == [kind |-> "one", name |-> name, names |-> <<>>]

Many(names) == [kind |-> "many", name |-> "", names |-> names]

\* Rule type constraints: none, a plain type, Collection.List / Collection.Dict
\* with an optional subtype ("" when none is given).
NoType == [kind |-> "none", type |-> ""]

Plain(type) == [kind |-> "plain", type |-> type]

CollectionList(subtype) == [kind |-> "list", type |-> subtype]

CollectionDict(subtype) == [kind |-> "dict", type |-> subtype]

Rule(binding, datatype, operation) ==
    [binding |-> binding, type |-> datatype,
     operation |-> IF operation = "None" THEN "default_operation" ELSE operation]

\* The rule operations the modelled controllers use:
\*   default_operation        identity
\*   class_name               lambda x: x.__class__.__name__
\*   scope_model              lambda scope: scope.model
\*   unbound_name             lambda x: a name that is bound nowhere
\* The result is [err, v]; scope_model raises AttributeError on a value that
\* has no attribute `model`, unbound_name raises NameError on every value.
Apply(operation, value) ==
    CASE operation = "default_operation" -> [err |-> "none", v |-> value]
      [] operation = "class_name" -> [err |-> "none", v |-> Scalar("str", value.t)]
      [] operation = "scope_model" ->
            IF value.t \in {"PhoneRecord", "Contact", "Owner"}
            THEN [err |-> "none", v |-> Scalar("DataModel", value.s)]
            ELSE [err |-> "AttributeError", v |-> value]
      [] operation = "unbound_name" -> [err |-> "NameError", v |-> value]

----------------------------------------------------------------------------
\* The controller classes of the model and their rule sets

Classes == {"Person", "Pair", "Book", "Shelf", "PhoneBook"}

\* MODEL_RULES of each class: data key -> (binding, type, operation).
\*   Person     uid as in the base rules, and two fields whose attribute
\*              names contain one another ("Name" in "fullName")
\*   Pair       a key bound to several attributes
\*   Book       a Collection.Dict beside a plain int
\*   Shelf      a Collection.List with an element type
\*   PhoneBook  the root-bound _collection of the base rules and a list of
\*              records mapped to their models (the class docstring's example)
\*   Directory  a list of entry controllers and one owner controller, for
\*              listeners registered with a dot path
\*   Gauge      the root-bound _collection, a plain int and a field whose
\*              operation raises NameError, both bound to one attribute
\*   Meter      the root-bound _collection and the model of a controller
\*              held in an attribute
\*   PhoneRecord, Contact, Owner
\*              the controllers a Directory holds in its attributes
MODEL_RULES(c) ==
    CASE c = "Person" ->
            [k \in {"uid", "name", "nick"} |->
                CASE k = "uid" -> Rule(One("uid"), Plain("str"), "None")
                  [] k = "name" -> Rule(One("fullName"), Plain("str"), "None")
                  [] k = "nick" -> Rule(One("Name"), NoType, "None")]
      [] c = "Pair" ->
            [k \in {"full", "first", "_collection"} |->
                CASE k = "full" -> Rule(Many(<<"first", "last">>), NoType, "None")
                  [] k = "first" -> Rule(One("first"), NoType, "class_name")
                  [] k = "_collection" -> Rule(NoBinding, NoType, "class_name")]
      [] c = "Book" ->
            [k \in {"props", "count"} |->
                CASE k = "props" -> Rule(One("props"), CollectionDict("str"), "None")
                  [] k = "count" -> Rule(One("count"), Plain("int"), "None")]
      [] c = "Shelf" ->
            [k \in {"items"} |->
                Rule(One("items"), CollectionList("str"), "None")]
      [] c = "PhoneBook" ->
            [k \in {"_collection", "records"} |->
                CASE k = "_collection" -> Rule(NoBinding, Plain("str"), "class_name")
                  [] k = "records" ->
                        Rule(One("records"), CollectionList("DataModel"), "scope_model")]
      [] c = "Gauge" ->
            [k \in {"_collection", "count", "nick"} |->
                CASE k = "_collection" -> Rule(NoBinding, Plain("str"), "class_name")
                  [] k = "count" -> Rule(One("count"), Plain("int"), "None")
                  [] k = "nick" -> Rule(One("count"), NoType, "unbound_name")]
      [] c = "Meter" ->
            [k \in {"_collection", "owner"} |->
                CASE k = "_collection" -> Rule(NoBinding, Plain("str"), "class_name")
                  [] k = "owner" -> Rule(One("holder"), Plain("DataModel"), "scope_model")]
      [] c = "Directory" ->
            [k \in {"entries", "owner"} |->
                CASE k = "entries" ->
                        Rule(One("entries"), CollectionList("DataModel"), "scope_model")
                  [] k = "owner" -> Rule(One("owner"), Plain("DataModel"), "scope_model")]
      [] c = "PhoneRecord" ->
            [k \in {"name", "number", "owner"} |->
                CASE k = "name" -> Rule(One("name"), Plain("str"), "None")
                  [] k = "number" -> Rule(One("number"), Plain("str"), "None")
                  [] k = "owner" -> Rule(One("owner"), Plain("DataModel"), "scope_model")]
      [] c = "Contact" ->
            [k \in {"name"} |-> Rule(One("name"), Plain("str"), "None")]
      [] c = "Owner" ->
            [k \in {"name"} |-> Rule(One("name"), Plain("str"), "None")]

Keys(c) == DOMAIN MODEL_RULES(c)

\* The keys a source dict may hold; "count" is also a data key of Book.
DictKeys == {"count", "x"}

\* The class whose controllers are reached through dot paths, and the
\* classes of the controllers it holds.
PathClasses == {"Directory"}

ChildClasses == {"PhoneRecord", "Contact", "Owner"}

ControllerClasses == Classes \cup PathClasses \cup ChildClasses

AllKeys == UNION {Keys(c) : c \in ControllerClasses}

DataKeys == AllKeys \cup DictKeys

AttrNames == {"uid", "fullName", "Name", "first", "last", "items", "props",
              "count", "records", "entries", "owner", "holder"}

\* The attributes a writer assigns on a controller of the class; uid is set
\* on every controller by __init__ (INIT_DEFAULTS).
ClassAttrs(c) ==
    CASE c = "Person" -> {"uid", "fullName", "Name"}
      [] c = "Pair" -> {"first", "last"}
      [] c = "Book" -> {"props", "count"}
      [] c = "Shelf" -> {"items"}
      [] c = "PhoneBook" -> {"records"}
      [] c = "Directory" -> {"entries", "owner"}
      [] c = "Gauge" -> {"count"}
      [] c = "Meter" -> {"holder"}

RECURSIVE SeqsUpTo(_, _)
SeqsUpTo(S, n) ==
    IF n = 0 THEN {<<>>}
    ELSE LET shorter == SeqsUpTo(S, n - 1)
         IN  shorter \cup {Append(q, e) : q \in shorter, e \in S}

StrA == Scalar("str", "a")

StrB == Scalar("str", "b")

Int7 == Scalar("int", "7")

Int8 == Scalar("int", "8")

\* The controllers a Directory holds: two phone records and a contact in
\* its entries, and the owner that it and every phone record refer to.
ChildIds == {"r1", "r2", "c1", "p1"}

Record1 == Scalar("PhoneRecord", "r1")

Record2 == Scalar("PhoneRecord", "r2")

Contact1 == Scalar("Contact", "c1")

\* The lists of controllers a Directory is given as its entries.
EntryLists ==
    {<<>>, <<Record1>>, <<Record1, Record2>>, <<Record1, Contact1>>, <<Contact1, Record1>>}

\* self.__keys of a held controller, in the order its rules iterate.
ChildOrder(c) ==
    CASE c = "PhoneRecord" -> <<"name", "number", "owner">>
      [] c = "Contact" -> <<"name">>
      [] c = "Owner" -> <<"name">>

\* The attributes of the held controllers.
ChildAttrs(id, name) ==
    CASE name = "owner" /\ id \in {"r1", "r2"} -> Scalar("Owner", "p1")
      [] name \in {"name", "number"} -> Scalar("str", id)
      [] OTHER -> Absent

\* The dicts an attribute may hold.
DictSources ==
    {DictValue(<<>>),
     DictValue([k \in {"x"} |-> StrA]),
     DictValue([k \in {"count", "x"} |-> StrA]),
     DictValue([k \in {"count", "x"} |-> IF k = "x" THEN Int7 ELSE StrA])}

\* The values a writer assigns to each attribute.
AttrValues(attr) ==
    CASE attr = "uid" -> {Scalar("str", ""), StrA}
      [] attr = "fullName" -> {StrA, StrB, Int7}
      [] attr = "Name" -> {StrA, Int7}
      [] attr = "first" -> {StrA, Int7}
      [] attr = "last" -> {StrB}
      [] attr = "items" ->
            {ListValue(q) : q \in SeqsUpTo({StrA, StrB, Int7}, MaxLen)} \cup {StrA}
      [] attr = "props" -> DictSources \cup {StrA}
      [] attr = "count" -> {Int7, Int8, StrA}
      [] attr = "records" ->
            {ListValue(q) : q \in SeqsUpTo({Scalar("PhoneRecord", "r1"), Int7}, MaxLen)}
                \cup {Int7}
      [] attr = "entries" -> {ListValue(q) : q \in EntryLists}
      [] attr = "owner" -> {Scalar("Owner", "p1")}
      [] attr = "holder" -> {Scalar("Owner", "p1"), Int7}

----------------------------------------------------------------------------
\* DataModel.update_key

\* An update_key outcome: the exception raised ("none" when it returned) and
\* the private __data mapping as the call left it.
Return(d) == [err |-> "none", data |-> d]

Raise(e, d) == [err |-> e, data |-> d]

\* No instruction (None, or an empty dict, which is falsy as well).
NoInstruction == [action |-> "none", index |-> 0, key |-> ""]

Min(S) == CHOOSE m \in S : \A n \in S : m <= n

\* The restriction of an iteration order to the keys of one mapping.
RECURSIVE Restrict(_, _)
Restrict(ord, S) ==
    IF ord = <<>> THEN <<>>
    ELSE IF Head(ord) \in S THEN <<Head(ord)>> \o Restrict(Tail(ord), S)
    ELSE Restrict(Tail(ord), S)

\* value = ref, or getattr(ref, rule.binding) when the rule has a binding;
\* getattr takes a str, so a list of names is a TypeError.
ResolveSource(at, c, binding) ==
    CASE binding.kind = "none" -> [err |-> "none", v |-> SelfRef(c)]
      [] binding.kind = "one" ->
            IF at[binding.name] = Absent
            THEN [err |-> "AttributeError", v |-> Absent]
            ELSE [err |-> "none", v |-> at[binding.name]]
      [] binding.kind = "many" -> [err |-> "TypeError", v |-> Absent]

\* `subtype and not isinstance(item, subtype)`
ItemInvalid(item, subtype) == subtype # "" /\ ~IsInstance(item, subtype)

\* What handling one collection item raises: the operation's own error, or
\* TypeError when the transformed item is not of the subtype.
ItemError(operation, subtype, x) ==
    LET y == Apply(operation, x)
    IN  IF y.err # "none" THEN y.err
        ELSE IF ItemInvalid(y.v, subtype) THEN "TypeError"
        ELSE "none"

\* update_list_full storing the source elements themselves, the operation
\* left out of the last comprehension.
update_list_full_untransformed(d, key, rule, value) ==
    IF value.t # "list" THEN Raise("TypeError", d)
    ELSE IF \E i \in 1..Len(value.l) :
                ItemError(rule.operation, rule.type.type, value.l[i]) # "none"
         THEN Raise("TypeError", d)
         ELSE Return([d EXCEPT ![key] = ListValue(value.l)])

\* The elements a field holds, none when the key is not stored.
StoredElements(d, key) == IF d[key] = Absent THEN <<>> ELSE d[key].l

\* update_list_full extending the stored list with the re-generated
\* elements.
update_list_full_extends(d, key, rule, value) ==
    IF value.t # "list" THEN Raise("TypeError", d)
    ELSE IF \E i \in 1..Len(value.l) :
                ItemError(rule.operation, rule.type.type, value.l[i]) # "none"
         THEN Raise("TypeError", d)
         ELSE Return([d EXCEPT ![key] =
                 ListValue(StoredElements(d, key)
                           \o [i \in 1..Len(value.l) |-> Apply(rule.operation, value.l[i]).v])])

\* Collection.List without instruction: the whole list is re-generated.
update_list_full(d, key, rule, value) ==
    IF value.t # "list" THEN Raise("TypeError", d)
    ELSE LET n == Len(value.l)
             bad == {i \in 1..n :
                        ItemError(rule.operation, rule.type.type, value.l[i]) # "none"}
         IN  IF bad # {}
             THEN Raise(ItemError(rule.operation, rule.type.type, value.l[Min(bad)]), d)
             ELSE Return([d EXCEPT ![key] =
                     ListValue([i \in 1..n |-> Apply(rule.operation, value.l[i]).v])])

\* list.remove(item): drops the first element equal to item.
RemoveFirst(items, item) ==
    LET i == Min({j \in 1..Len(items) : items[j] = item})
    IN  SubSeq(items, 1, i - 1) \o SubSeq(items, i + 1, Len(items))

\* list.insert(index, item) for 0 <= index.
InsertAt(items, index, item) ==
    LET i == IF index > Len(items) THEN Len(items) ELSE index
    IN  SubSeq(items, 1, i) \o <<item>> \o SubSeq(items, i + 1, Len(items))

\* What value[i] ranges over: the elements of a list, the characters of a
\* str.
Elements(value) ==
    IF value.t = "str"
    THEN [i \in 1..Len(value.s) |-> Scalar("str", SubSeq(value.s, i, i))]
    ELSE value.l

\* value[0], taken where the last element is meant.
FirstElement(value) == Elements(value)[1]

\* value[len(value)-1]
LastElement(value) == Elements(value)[Len(Elements(value))]

\* An instruction whose action the branch does not know is accepted and
\* does nothing.
InvalidInstructionIgnored(d) == Return(d)

\* `raise ValueError('collection... cannot handle instruction type: ...')`
InvalidInstruction(d) == Raise("ValueError", d)

\* Collection.List with an instruction (index is Python's, from 0). The
\* source is only indexed, so a str passes for a list; len() and indexing
\* raise TypeError on an int.
update_list_instruction(d, key, rule, value, instruction) ==
    CASE instruction.action = "remove" ->
            IF d[key] = Absent THEN Raise("KeyError", d)
            ELSE IF instruction.index >= Len(d[key].l) THEN Raise("IndexError", d)
            ELSE Return([d EXCEPT ![key] =
                    ListValue(RemoveFirst(d[key].l, d[key].l[instruction.index + 1]))])
      [] instruction.action = "append" ->
            IF value.t \notin {"list", "str"} THEN Raise("TypeError", d)
            ELSE IF Len(Elements(value)) = 0 THEN Raise("IndexError", d)
            ELSE LET x == LastElement(value)
                     e == ItemError(rule.operation, rule.type.type, x)
                 IN  IF e # "none" THEN Raise(e, d)
                     ELSE IF d[key] = Absent THEN Raise("KeyError", d)
                     ELSE Return([d EXCEPT ![key] =
                             ListValue(Append(d[key].l, Apply(rule.operation, x).v))])
      [] instruction.action = "insert" ->
            IF value.t \notin {"list", "str"} THEN Raise("TypeError", d)
            ELSE IF instruction.index >= Len(Elements(value)) THEN Raise("IndexError", d)
            ELSE LET x == Elements(value)[instruction.index + 1]
                     e == ItemError(rule.operation, rule.type.type, x)
                 IN  IF e # "none" THEN Raise(e, d)
                     ELSE IF d[key] = Absent THEN Raise("KeyError", d)
                     ELSE Return([d EXCEPT ![key] =
                             ListValue(InsertAt(d[key].l, instruction.index,
                                                Apply(rule.operation, x).v))])
      [] OTHER -> InvalidInstruction(d)

\* Collection.Dict without instruction: the field is reset to {} and each
\* transformed item is stored with `self.__data[k] = y`, in the order the
\* source dict iterates.
RECURSIVE StoreItems(_, _, _, _)
StoreItems(d, rule, items, ks) ==
    IF ks = <<>> THEN Return(d)
    ELSE LET k == Head(ks)
             e == ItemError(rule.operation, rule.type.type, items[k])
         IN  IF e # "none" THEN Raise(e, d)
             ELSE StoreItems([d EXCEPT ![k] = Apply(rule.operation, items[k]).v],
                             rule, items, Tail(ks))

update_dict_full(d, key, rule, value, io) ==
    IF value.t # "dict" THEN Raise("TypeError", d)
    ELSE StoreItems([d EXCEPT ![key] = DictValue(<<>>)], rule, value.d,
                    Restrict(io, DOMAIN value.d))

\* The dict with key k set to item.
WithItem(items, k, item) ==
    [j \in (DOMAIN items) \cup {k} |-> IF j = k THEN item ELSE items[j]]

\* A removal that deletes nothing.
WithoutItemKept(items, k) == items

\* The dict without key k.
WithoutItem(items, k) == [j \in (DOMAIN items) \ {k} |-> items[j]]

\* Collection.Dict with an instruction.
update_dict_instruction(d, key, rule, value, instruction) ==
    CASE instruction.action = "remove" ->
            IF d[key] = Absent \/ instruction.key \notin DOMAIN d[key].d
            THEN Raise("KeyError", d)
            ELSE Return([d EXCEPT ![key] =
                    DictValue(WithoutItem(d[key].d, instruction.key))])
      [] instruction.action = "add" ->
            IF value.t # "dict" THEN Raise("TypeError", d)
            ELSE IF instruction.key \notin DOMAIN value.d THEN Raise("KeyError", d)
            ELSE LET x == value.d[instruction.key]
                     e == ItemError(rule.operation, rule.type.type, x)
                 IN  IF e # "none" THEN Raise(e, d)
                     ELSE IF d[key] = Absent THEN Raise("KeyError", d)
                     ELSE Return([d EXCEPT ![key] =
                             DictValue(WithItem(d[key].d, instruction.key,
                                                Apply(rule.operation, x).v))])
      [] OTHER -> InvalidInstruction(d)

\* update_plain validating the source value, not the transformed one.
update_plain_validates_source(d, key, rule, value) ==
    IF ~IsInstance(value, rule.type.type) THEN Raise("TypeError", d)
    ELSE Return([d EXCEPT ![key] = Apply(rule.operation, value).v])

\* A plain type: the operation is applied, then the result is validated.
update_plain(d, key, rule, value) ==
    LET y == Apply(rule.operation, value)
    IN  IF y.err # "none" THEN Raise(y.err, d)
        ELSE IF ~IsInstance(y.v, rule.type.type) THEN Raise("TypeError", d)
        ELSE Return([d EXCEPT ![key] = y.v])

\* No type: the result of the operation is stored as it is.
update_untyped(d, key, rule, value) ==
    LET y == Apply(rule.operation, value)
    IN  IF y.err # "none" THEN Raise(y.err, d) ELSE Return([d EXCEPT ![key] = y.v])

update_key(d, at, c, key, instruction, io) ==
    IF key \notin Keys(c) THEN Raise("AttributeError", d)
    ELSE LET rule == MODEL_RULES(c)[key]
             src == ResolveSource(at, c, rule.binding)
         IN  IF src.err # "none" THEN Raise(src.err, d)
             ELSE CASE rule.type.kind = "list" ->
                          IF instruction.action # "none"
                          THEN update_list_instruction(d, key, rule, src.v, instruction)
                          ELSE update_list_full(d, key, rule, src.v)
                    [] rule.type.kind = "dict" ->
                          IF instruction.action # "none"
                          THEN update_dict_instruction(d, key, rule, src.v, instruction)
                          ELSE update_dict_full(d, key, rule, src.v, io)
                    [] rule.type.kind = "plain" -> update_plain(d, key, rule, src.v)
                    [] rule.type.kind = "none" -> update_untyped(d, key, rule, src.v)

----------------------------------------------------------------------------
\* DataModel.update_all and DataModel.update_from_binding

\* The outcome of a pass over the rules: the exception that ended it, the
\* data it left and the keys whose update_key returned (in `done`).
Pass(e, d, done) == [err |-> e, data |-> d, done |-> done]

\* update_key for every rule, in the order the rules dict iterates; the
\* first exception ends the loop.
RECURSIVE update_all_loop(_, _, _, _, _, _)
\* After update_key(ks[1]) ended as r: stop on its exception, else go on.
update_all_next(r, at, c, ks, io, done) ==
    IF r.err # "none" THEN Pass(r.err, r.data, done)
    ELSE update_all_loop(r.data, at, c, Tail(ks), io, done \cup {Head(ks)})

update_all_loop(d, at, c, ks, io, done) ==
    IF ks = <<>> THEN Pass("none", d, done)
    ELSE update_all_next(update_key(d, at, c, Head(ks), NoInstruction, io),
                         at, c, ks, io, done)

update_all(d, at, c, ord, io) ==
    update_all_loop(d, at, c, ord, io, {})

\* What update_from_binding is called with: nothing, one attribute name, or
\* a list of bindings (the controller's __bindings).
BoundNone == [kind |-> "none", name |-> "", list |-> <<>>]

BoundName(name) == [kind |-> "str", name |-> name, list |-> <<>>]

BoundList(list) == [kind |-> "list", name |-> "", list |-> list]

InList(x, list) == \E i \in 1..Len(list) : list[i] = x

\* The rule test of the str branch:
\*   not val.binding or val.binding in bound_attr_name or
\*   (isinstance(val.binding, (list, set, tuple)) and bound_attr_name in val.binding)
\* `in` on a str is substring containment and takes a str on its left.
MatchesName(binding, name) ==
    CASE binding.kind = "none" -> "yes"
      [] binding.kind = "one" ->
            IF StrContains(name, binding.name) THEN "yes" ELSE "no"
      [] binding.kind = "many" -> "TypeError"

\* The rule test of the list branch:
\*   not val.binding or val.binding in bound_attr_name or
\*   (isinstance(val.binding, (list, set, tuple)) and
\*    bool([x for x in val.binding if x in bound_attr_name]))
MatchesList(binding, list) ==
    CASE binding.kind = "none" -> "yes"
      [] binding.kind = "one" -> IF InList(binding, list) THEN "yes" ELSE "no"
      [] binding.kind = "many" ->
            IF \/ InList(binding, list)
               \/ \E i \in 1..Len(binding.names) : InList(One(binding.names[i]), list)
            THEN "yes" ELSE "no"

Matches(binding, bound) ==
    IF bound.kind = "str" THEN MatchesName(binding, bound.name)
    ELSE MatchesList(binding, bound.list)

RECURSIVE update_from_binding_loop(_, _, _, _, _, _, _)
\* After update_key(ks[1]) ended as r: stop on its exception, else add the
\* key and go on.
update_from_binding_next(r, at, c, ks, bound, io, done) ==
    IF r.err # "none" THEN Pass(r.err, r.data, done)
    ELSE update_from_binding_loop(r.data, at, c, Tail(ks), bound, io,
                                  done \cup {Head(ks)})

\* The rule test came out as m: it raised, the rule is skipped, or the key
\* is updated.
update_from_binding_test(m, d, at, c, ks, bound, io, done) ==
    IF m = "TypeError" THEN Pass("TypeError", d, done)
    ELSE IF m = "no" THEN update_from_binding_loop(d, at, c, Tail(ks), bound, io, done)
    ELSE update_from_binding_next(update_key(d, at, c, Head(ks), NoInstruction, io),
                                  at, c, ks, bound, io, done)

update_from_binding_loop(d, at, c, ks, bound, io, done) ==
    IF ks = <<>> THEN Pass("none", d, done)
    ELSE update_from_binding_test(Matches(MODEL_RULES(c)[Head(ks)].binding, bound),
                                  d, at, c, ks, bound, io, done)

\* `not bound_attr_name`: None, '' and [] all mean the whole model.
update_from_binding(d, at, c, bound, ord, io) ==
    IF bound.kind = "none" \/ (bound.kind = "list" /\ bound.list = <<>>)
    THEN update_all(d, at, c, ord, io)
    ELSE update_from_binding_loop(d, at, c, ord, bound, io, {})

----------------------------------------------------------------------------
\* DataModelController

\* self.__bindings: the binding of every rule that has one, as the rules
\* iterate.
RECURSIVE Bindings(_, _)
Bindings(c, ks) ==
    IF ks = <<>> THEN <<>>
    ELSE LET b == MODEL_RULES(c)[Head(ks)].binding
         IN  (IF b.kind = "none" THEN <<>> ELSE <<b>>) \o Bindings(c, Tail(ks))

\* `self.__bindings and key in self.__bindings`
InBindings(bindings, key) == bindings # <<>> /\ InList(One(key), bindings)

\* None, handed to a callback as its instruction.
NoneInstruction == [action |-> "None", index |-> 0, key |-> ""]

\* The instruction _call_listener hands to the callbacks (kwargs is None at
\* every call site): a falsy instruction becomes None.
ListenerInstruction(instruction) ==
    IF instruction.action = "none" THEN NoneInstruction ELSE instruction

\* The args of a registration: None, or a list of extra arguments.
NoArgs == [given |-> FALSE, items |-> <<>>]

ArgList(items) == [given |-> TRUE, items |-> items]

\* A registered listener, the tuple (func, args).
Listener(func, args) == [func |-> func, args |-> args]

\* callable(listener[0])
Callable(func) == func # "None"

\* `if listener[1]`: the extra arguments a callback is called with.
ExtraArgs(args) == IF args.given /\ args.items # <<>> THEN args.items ELSE <<>>

\* One call: listener[0](self.model, key, instruction, *listener[1])
ListenerCall(listener, key, instruction) ==
    [cb |-> listener.func, key |-> key, instruction |-> ListenerInstruction(instruction),
     args |-> ExtraArgs(listener.args)]

\* The listeners that are called, out of those registered for a key.
Called(registered) == SelectSeq(registered, LAMBDA listener : Callable(listener.func))

\* CallsFor calling every listener of the key twice.
CallsForTwice(ls, key, instruction) ==
    [i \in 1..(2 * Len(Called(ls[key]))) |->
        ListenerCall(Called(ls[key])[((i - 1) % Len(Called(ls[key]))) + 1], key, instruction)]

\* CallsFor calling the listeners of the key last registered first.
CallsForReversed(ls, key, instruction) ==
    [i \in 1..Len(Called(ls[key])) |->
        ListenerCall(Called(ls[key])[Len(Called(ls[key])) + 1 - i], key, instruction)]

\* The calls of one key's listeners, in registration order.
CallsFor(ls, key, instruction) ==
    [i \in 1..Len(Called(ls[key])) |-> ListenerCall(Called(ls[key])[i], key, instruction)]

\* _call_listener over a collection of keys: one recursive call per key.
RECURSIVE _call_listener(_, _, _)
_call_listener(ls, ks, instruction) ==
    IF ks = <<>> THEN <<>>
    ELSE CallsFor(ls, Head(ks), instruction) \o _call_listener(ls, Tail(ks), instruction)

----------------------------------------------------------------------------
\* core.dotdict and core.enum

\* Most names an enum is made of.
MaxArgs == 3

\* The names enums are made of.
EnumNames == {"One", "Two", "Horse", "Ox"}

\* The values an enum holds and name_of returns: an int or a str.
IntValue(i) == [t |-> "int", i |-> i, s |-> ""]

StrValue(name) == [t |-> "str", i |-> 0, s |-> name]

NoValue == [t |-> "absent", i |-> 0, s |-> ""]

\* An instance of Enum or EnumInt: the items of the dict it is, and
\* _ordered_args when its __dict__ holds it.
Instance(c, items, has_ordered, ordered) ==
    [cls |-> c, items |-> items, has_ordered |-> has_ordered, ordered |-> ordered]

NamesIn(args) == {args[i] : i \in 1..Len(args)}

Max(S) == CHOOSE m \in S : \A n \in S : m >= n

\* dict(zip(args, range(1, len(args) + 1))): a name given twice keeps its
\* last position.
ZipRange(args) ==
    [n \in NamesIn(args) |-> IntValue(Max({i \in 1..Len(args) : args[i] = n}))]

\* `for arg in args: d[arg] = arg`
Literals(args) == [n \in NamesIn(args) |-> StrValue(n)]

\* Names found on the class of an instance.
ClassMembers == {"name_of"}

\* hasattr(obj, key): the instance __dict__, the class, or DotDict.__getattr__,
\* which looks the key up in the dict and raises AttributeError without it.
DotDict_hasattr(obj, key) ==
    \/ (key = "_ordered_args" /\ obj.has_ordered)
    \/ key \in ClassMembers
    \/ key \in DOMAIN obj.items

\* ImmutableDotDict.__setattr__ (the only attribute ever assigned is
\* _ordered_args).
ImmutableDotDict__setattr__(obj, key, value) ==
    IF key \notin DOMAIN obj.items /\ DotDict_hasattr(obj, key)
    THEN [err |-> "none",
          obj |-> IF key = "_ordered_args"
                  THEN [obj EXCEPT !.has_ordered = TRUE, !.ordered = value]
                  ELSE obj]
    ELSE [err |-> "ValueError", obj |-> obj]

\* Enum.__init__(*args): dict.__init__(d) fills the dict.
Enum__init__(args) ==
    [err |-> "none", obj |-> Instance("Enum", Literals(args), FALSE, <<>>)]

\* EnumInt.__init__ after `self._ordered_args = args` ended as r, on the
\* still empty dict: `super(Enum, self).__init__(d)` fills it.
EnumInt__init__fill(r, args) ==
    IF r.err # "none" THEN r
    ELSE [err |-> "none", obj |-> [r.obj EXCEPT !.items = ZipRange(args)]]

EnumInt__init__(args) ==
    EnumInt__init__fill(
        ImmutableDotDict__setattr__(Instance("EnumInt", <<>>, FALSE, <<>>),
                                    "_ordered_args", args),
        args)

\* obj[key]
Enum__getitem__(obj, key) ==
    IF key \in DOMAIN obj.items THEN [err |-> "none", v |-> obj.items[key]]
    ELSE [err |-> "KeyError", v |-> NoValue]

\* Enum.name_of(value): self[value]
Enum_name_of(obj, value) == Enum__getitem__(obj, value.s)

\* EnumInt.name_of(value): self._ordered_args[value - 1]; the index -1 is
\* the last element.
EnumInt_name_of(obj, value) ==
    IF ~obj.has_ordered THEN [err |-> "AttributeError", v |-> NoValue]
    ELSE IF value.t # "int" THEN [err |-> "TypeError", v |-> NoValue]
    ELSE IF value.i = 0 /\ obj.ordered # <<>>
    THEN [err |-> "none", v |-> StrValue(obj.ordered[Len(obj.ordered)])]
    ELSE IF value.i \in 1..Len(obj.ordered)
    THEN [err |-> "none", v |-> StrValue(obj.ordered[value.i])]
    ELSE [err |-> "IndexError", v |-> NoValue]

name_of(obj, value) ==
    IF obj.cls = "EnumInt" THEN EnumInt_name_of(obj, value) ELSE Enum_name_of(obj, value)

\* The enum of a state: the class and names it is to be made of, how far
\* it is ("args", "made" or "failed"; "none" when the state has no enum), the
\* exception of the last call on it (op) and what the last lookup returned.
EnumState(state, c, args, err, obj, out) ==
    [state |-> state, cls |-> c, args |-> args, err |-> err, obj |-> obj, out |-> out,
     op |-> "none"]

NoEnum == EnumState("none", "", <<>>, "none", Instance("", <<>>, FALSE, <<>>), NoValue)

----------------------------------------------------------------------------
\* State

VARIABLES
    cls,         \* the controller's class
    order,       \* iteration order of the rules dict (and of sets of its keys)
    itemOrder,   \* iteration order of a source dict's keys
    attrs,       \* the controller's attributes: name -> value (Absent: not set)
    data,        \* the model's private __data: key -> value (Absent: no such key)
    modelAttrs,  \* instance attributes that object.__setattr__ put on the model
    listeners,   \* the controller's __listeners: key -> (func, args) in order
    childListeners,  \* __listeners of each controller held in an attribute
    last,        \* the last call: what it was, how it ended, what it touched
    enum         \* an Enum or EnumInt under construction or constructed

vars == <<cls, order, itemOrder, attrs, data, modelAttrs, listeners, childListeners,
          last, enum>>

\* The iteration orders of a mapping with the keys S.
Orders(S) ==
    {q \in [1..Cardinality(S) -> S] : \A i, j \in 1..Cardinality(S) : q[i] = q[j] => i = j}

\* The callbacks a caller registers.
Callbacks == {"cb"}

\* Names an external caller assigns on the model with attribute or item
\* syntax: a declared key and a name that no class declares.
WriteNames == {"_collection", "_locked"}

\* INIT_DEFAULTS: uid is ''.
INIT_DEFAULTS == Scalar("str", "")

\* The number of registrations the controller holds.
RECURSIVE SumLen(_, _)
SumLen(ls, S) ==
    IF S = {} THEN 0
    ELSE LET k == CHOOSE x \in S : TRUE IN Len(ls[k]) + SumLen(ls, S \ {k})

Registered(ls) == SumLen(ls, DOMAIN ls)

EmptyData == [k \in DataKeys |-> Absent]

Call(op, key, err, caught, derived, dispatched, calls) ==
    [op |-> op, key |-> key, err |-> err, caught |-> caught, derived |-> derived,
     dispatched |-> dispatched, calls |-> calls, instruction |-> NoInstruction,
     before |-> Absent, repeated |-> FALSE, keys |-> <<>>, depth |-> 0, seen |-> <<>>,
     raised |-> "none"]

\* Exceptions DataModelController.__setattr__ swallows.
Swallowed == {"AttributeError", "NameError"}

\* DataModelController.__init__ on a fresh DataModel(MODEL_RULES): the
\* subclass has set its own attributes (at0), then uid goes through the
\* write path and, with update, the whole model is derived.
ConstructEnd(r2, at1) == [ok |-> r2.err = "none", attrs |-> at1, data |-> r2.data]

\* After `setattr(self, 'uid', ...)` ended as r1: an exception that
\* __setattr__ does not swallow ends the construction.
ConstructUpdate(r1, c, at1, update, ord, io) ==
    IF r1.err \notin Swallowed \cup {"none"} THEN ConstructEnd(r1, at1)
    ELSE IF update THEN ConstructEnd(update_all(r1.data, at1, c, ord, io), at1)
    ELSE ConstructEnd(Pass("none", r1.data, {}), at1)

ConstructSetUid(c, at1, update, ord, io) ==
    ConstructUpdate(IF InBindings(Bindings(c, ord), "uid")
                    THEN update_from_binding(EmptyData, at1, c, BoundName("uid"), ord, io)
                    ELSE Pass("none", EmptyData, {}),
                    c, at1, update, ord, io)

Construct(c, at0, uid, update, ord, io) ==
    ConstructSetUid(c, [at0 EXCEPT !["uid"] = uid], update, ord, io)

\* Every way to set the attributes S, the others left unset.
RECURSIVE Assignments(_)
Assignments(S) ==
    IF S = {} THEN {[a \in AttrNames |-> Absent]}
    ELSE LET a == CHOOSE x \in S : TRUE
         IN  {[f EXCEPT ![a] = v] : f \in Assignments(S \ {a}), v \in AttrValues(a)}

\* The construction returned: the controller and its model are as it left
\* them.
Constructed(made) ==
    /\ made.ok
    /\ attrs = made.attrs
    /\ data = made.data

\* The states a construction leaves; `updates` are the values of __init__'s
\* update parameter (True by default), `classes` the classes constructed.
InitWith(updates, classes) ==
    /\ cls \in classes
    /\ order \in Orders(Keys(cls))
    /\ itemOrder \in (IF cls = "Book" THEN Orders(DictKeys) ELSE {<<"count", "x">>})
    /\ \E at0 \in Assignments(ClassAttrs(cls) \ {"uid"}),
          uid \in (IF "uid" \in ClassAttrs(cls) THEN AttrValues("uid") ELSE {INIT_DEFAULTS}),
          update \in updates :
             Constructed(Construct(cls, at0, uid, update, order, itemOrder))
    /\ modelAttrs = [n \in WriteNames |-> Absent]
    /\ listeners = [k \in AllKeys |-> <<>>]
    /\ childListeners = [id \in ChildIds |-> [k \in AllKeys |-> <<>>]]
    /\ last = Call("init", "", "none", "none", {}, {}, <<>>)
    /\ enum = NoEnum

Init == InitWith(BOOLEAN, Classes)

\* What the model holds when each of the calls is made, all of them made
\* with the data d.
Seen(calls, d) == [i \in 1..Len(calls) |-> d]

\* _update_model_dispatch calling the listeners of every key of the model,
\* not only of the keys update_from_binding returned.
_update_model_dispatch_all(r, ls, ord) ==
    IF r.err # "none"
    THEN [err |-> r.err, data |-> r.data, derived |-> r.done, dispatched |-> {},
          calls |-> <<>>, seen |-> <<>>]
    ELSE [err |-> "none", data |-> r.data, derived |-> r.done,
          dispatched |-> {ord[i] : i \in 1..Len(ord)},
          calls |-> _call_listener(ls, ord, NoInstruction),
          seen |-> Seen(_call_listener(ls, ord, NoInstruction), r.data)]

\* _update_model after update_from_binding ended as r: an exception leaves
\* before _call_listener, else the returned keys are dispatched with no
\* instruction; `seen` is what self.model holds at each call.
_update_model_dispatch(r, ls, ord) ==
    IF r.err # "none"
    THEN [err |-> r.err, data |-> r.data, derived |-> r.done, dispatched |-> {},
          calls |-> <<>>, seen |-> <<>>]
    ELSE [err |-> "none", data |-> r.data, derived |-> r.done, dispatched |-> r.done,
          calls |-> _call_listener(ls, Restrict(ord, r.done), NoInstruction),
          seen |-> Seen(_call_listener(ls, Restrict(ord, r.done), NoInstruction), r.data)]

\* _update_model calling the listeners of each field as soon as the field
\* is derived, before the fields after it.
RECURSIVE _update_model_early_loop(_, _, _, _, _, _, _, _)
_update_model_early_next(r, at, c, ls, bound, ks, io, acc) ==
    IF r.err # "none"
    THEN [err |-> r.err, data |-> r.data, derived |-> acc.derived, dispatched |-> {},
          calls |-> <<>>, seen |-> <<>>]
    ELSE _update_model_early_loop(
            r.data, at, c, ls, bound, Tail(ks), io,
            [derived |-> acc.derived \cup {Head(ks)},
             calls |-> acc.calls \o CallsFor(ls, Head(ks), NoInstruction),
             seen |-> acc.seen \o Seen(CallsFor(ls, Head(ks), NoInstruction), r.data)])

_update_model_early_loop(d, at, c, ls, bound, ks, io, acc) ==
    IF ks = <<>>
    THEN [err |-> "none", data |-> d, derived |-> acc.derived,
          dispatched |-> acc.derived, calls |-> acc.calls, seen |-> acc.seen]
    ELSE IF Matches(MODEL_RULES(c)[Head(ks)].binding, bound) = "TypeError"
    THEN [err |-> "TypeError", data |-> d, derived |-> acc.derived, dispatched |-> {},
          calls |-> <<>>, seen |-> <<>>]
    ELSE IF Matches(MODEL_RULES(c)[Head(ks)].binding, bound) = "no"
    THEN _update_model_early_loop(d, at, c, ls, bound, Tail(ks), io, acc)
    ELSE _update_model_early_next(update_key(d, at, c, Head(ks), NoInstruction, io),
                                  at, c, ls, bound, ks, io, acc)

_update_model_early(d, at, c, ls, bound, ord, io) ==
    _update_model_early_loop(d, at, c, ls,
                             IF bound.kind = "none" THEN BoundList(Bindings(c, ord))
                             ELSE bound,
                             ord, io, [derived |-> {}, calls |-> <<>>, seen |-> <<>>])

\* DataModelController._update_model(bindings): all of __bindings when
\* bindings is None.
_update_model(d, at, c, ls, bound, ord, io) ==
    _update_model_dispatch(
        update_from_binding(d, at, c,
                            IF bound.kind = "none" THEN BoundList(Bindings(c, ord))
                            ELSE bound,
                            ord, io),
        ls, ord)

\* A bare `except: pass` around the refresh that ended as r: every exception
\* is suppressed.
SwallowEverything(r) ==
    [err |-> "none", caught |-> r.err,
     data |-> r.data, derived |-> r.derived, dispatched |-> r.dispatched,
     calls |-> r.calls, seen |-> r.seen]

\* `except (AttributeError, NameError): pass` around the refresh that ended
\* as r.
SwallowErrors(r) ==
    [err |-> IF r.err \in Swallowed THEN "none" ELSE r.err,
     caught |-> IF r.err \in Swallowed THEN r.err ELSE "none",
     data |-> r.data, derived |-> r.derived, dispatched |-> r.dispatched,
     calls |-> r.calls, seen |-> r.seen]

\* DataModelController.__setattr__, after the attribute itself is set (at
\* already holds the new value): refresh when the name is a binding.
DataModelController__setattr__(d, at, c, ls, key, ord, io) ==
    IF InBindings(Bindings(c, ord), key)
    THEN SwallowErrors(_update_model(d, at, c, ls, BoundName(key), ord, io))
    ELSE [err |-> "none", caught |-> "none", data |-> d, derived |-> {},
          dispatched |-> {}, calls |-> <<>>, seen |-> <<>>]

\* INIT_DEFAULTS of a class that declares defaults for its own attributes
\* beside uid: the empty value of each attribute's type.
DefaultOf(attr) ==
    CASE attr = "uid" -> INIT_DEFAULTS
      [] attr \in {"items", "records", "entries"} -> ListValue(<<>>)
      [] attr = "props" -> DictValue(<<>>)
      [] attr = "count" -> Scalar("int", "0")
      [] OTHER -> Scalar("str", "")

ClassDefaults(c) == [a \in ClassAttrs(c) \cup {"uid"} |-> DefaultOf(a)]

\* What __init__ leaves: the exception that ended it, the attributes set on
\* the new controller and the data of the model it was given.
Built(e, at, d) == [err |-> e, attrs |-> at, data |-> d]

\* `self.__model.update_all(self)`, the last statement of __init__
init_update_all(r, at) == Built(r.err, at, r.data)

\* `for k, v in defaults.iteritems(): setattr(self, k, v)`, each through
\* __setattr__ (no listener is registered yet), then the full derivation.
RECURSIVE init_setattrs(_, _, _, _, _, _, _)
init_setattrs_next(r, at, c, defaults, ks, ord, io) ==
    IF r.err # "none" THEN Built(r.err, at, r.data)
    ELSE init_setattrs(r.data, at, c, defaults, ks, ord, io)

init_setattrs(d, at, c, defaults, ks, ord, io) ==
    IF ks = <<>> THEN init_update_all(update_all(d, at, c, ord, io), at)
    ELSE init_setattrs_next(
            DataModelController__setattr__(
                d, [at EXCEPT ![Head(ks)] = defaults[Head(ks)]], c,
                [k \in AllKeys |-> <<>>], Head(ks), ord, io),
            [at EXCEPT ![Head(ks)] = defaults[Head(ks)]], c, defaults, Tail(ks), ord, io)

\* cls.restore(data_store, data_model): kwargs is {'uid': data_model.uid},
\* laid over the class's INIT_DEFAULTS, which iterate in the order ks.
restore(d, c, ks, ord, io) ==
    IF d["uid"] = Absent THEN Built("AttributeError", [a \in AttrNames |-> Absent], d)
    ELSE init_setattrs(d, [a \in AttrNames |-> Absent], c,
                       [ClassDefaults(c) EXCEPT !["uid"] = d["uid"]], ks, ord, io)

\* hasattr(model, name): an instance attribute, or a key of __data through
\* __getattr__.
DataModel_hasattr(d, ma, name) ==
    \/ (name \in DOMAIN ma /\ ma[name] # Absent)
    \/ (name \in DOMAIN d /\ d[name] # Absent)

\* DataModel.__setattr__ on a constructed model (self.__locked is True):
\* the guard is `hasattr(self, '_locked') and self.__locked`; otherwise the
\* assignment goes to object.__setattr__.
DataModel__setattr__(d, ma, name, value) ==
    IF DataModel_hasattr(d, ma, "_locked")
    THEN [err |-> "ValueError", modelAttrs |-> ma]
    ELSE [err |-> "none", modelAttrs |-> [ma EXCEPT ![name] = value]]

\* __setitem__ storing the value.
DataModel__setitem__stores(d, key, value) ==
    [err |-> "none", data |-> [k \in DOMAIN d |-> IF k = key THEN value ELSE d[k]]]

\* DataModel.__setitem__: always refused.
DataModel__setitem__(d, key, value) == [err |-> "ValueError", data |-> d]

\* What `model.name` reads: the instance attribute when there is one, else
\* __getattr__, which looks the name up in __data.
DataModel__getattr__(d, ma, name) ==
    IF name \in DOMAIN ma /\ ma[name] # Absent THEN ma[name] ELSE d[name]

\* The listener registries of the controller ("self") and of the
\* controllers it holds.
Registries(ls, cl) == [id \in ChildIds \cup {"self"} |-> IF id = "self" THEN ls ELSE cl[id]]

\* A controller is the value Scalar(class, id); the controller itself has
\* the id "self".
IsController(v) == v.t \in ControllerClasses

\* self.__keys of controller v, the rules of the controller itself
\* iterating in the order ord.
KeysOf(v, ord) == IF v.s = "self" THEN ord ELSE ChildOrder(v.t)

\* getattr(v, name)
AttrOf(at, v, name) == IF v.s = "self" THEN at[name] ELSE ChildAttrs(v.s, name)

has_data_key(v, ord, key) == InList(key, KeysOf(v, ord))

\* The attribute name get_prop_for_key looks up: the binding, or the first
\* of several.
PropName(binding) == IF binding.kind = "many" THEN binding.names[1] ELSE binding.name

\* v.get_prop_for_key(key), as [err, v]; a value that is no controller has
\* no such method, and getattr(self, None) is a TypeError.
get_prop_for_key(at, v, ord, key) ==
    IF ~IsController(v) THEN [err |-> "AttributeError", v |-> Absent]
    ELSE IF ~has_data_key(v, ord, key) THEN [err |-> "ValueError", v |-> Absent]
    ELSE IF MODEL_RULES(v.t)[key].binding.kind = "none"
    THEN [err |-> "TypeError", v |-> Absent]
    ELSE IF AttrOf(at, v, PropName(MODEL_RULES(v.t)[key].binding)) = Absent
    THEN [err |-> "AttributeError", v |-> Absent]
    ELSE [err |-> "none", v |-> AttrOf(at, v, PropName(MODEL_RULES(v.t)[key].binding))]

\* key.split('.')
DotsOf(key) == {i \in 1..Len(key) : SubSeq(key, i, i) = "."}

RECURSIVE Split(_)
Split(key) ==
    IF DotsOf(key) = {} THEN <<key>>
    ELSE <<SubSeq(key, 1, Min(DotsOf(key)) - 1)>>
            \o Split(SubSeq(key, Min(DotsOf(key)) + 1, Len(key)))

\* [obj.get_prop_for_key(k) for obj in scopes], given each element's
\* outcome: the first exception, or the list of the properties.
PropsOf(props) ==
    IF \E i \in 1..Len(props) : props[i].err # "none"
    THEN [err |-> props[Min({i \in 1..Len(props) : props[i].err # "none"})].err,
          v |-> Absent]
    ELSE [err |-> "none", v |-> ListValue([i \in 1..Len(props) |-> props[i].v])]

\* One round of `for k in keys` in the dot-path branch of on_change: a
\* list scope is tested on its first element only.
ScopeStep(at, ord, scope, k) ==
    IF scope.t = "list"
    THEN IF scope.l = <<>> THEN [err |-> "IndexError", v |-> Absent]
         ELSE IF ~IsController(scope.l[1]) THEN [err |-> "AttributeError", v |-> Absent]
         ELSE IF ~has_data_key(scope.l[1], ord, k) THEN [err |-> "ValueError", v |-> Absent]
         ELSE PropsOf([i \in 1..Len(scope.l) |-> get_prop_for_key(at, scope.l[i], ord, k)])
    ELSE IF ~IsController(scope) THEN [err |-> "AttributeError", v |-> Absent]
    ELSE IF ~has_data_key(scope, ord, k) THEN [err |-> "ValueError", v |-> Absent]
    ELSE get_prop_for_key(at, scope, ord, k)

\* The scope the segments ks lead to from w.v.
RECURSIVE ScopeWalk(_, _, _, _)
ScopeWalk(at, ord, w, ks) ==
    IF w.err # "none" \/ ks = <<>> THEN w
    ELSE ScopeWalk(at, ord, ScopeStep(at, ord, w.v, Head(ks)), Tail(ks))

\* All the segments of a split key but the last (keys after keys.pop()).
Front(segments) == SubSeq(segments, 1, Len(segments) - 1)

\* on_change appending to the listeners of the controller itself, whatever
\* controller the key was resolved on.
RegisterOnSelf(regs, v, key, func, args) ==
    [err |-> "none",
     regs |-> [regs EXCEPT !["self"][key] = Append(@, Listener(func, args))]]

\* `self.__listeners[key].append((func, args))` on controller v
Register(regs, v, key, func, args) ==
    [err |-> "none",
     regs |-> [regs EXCEPT ![v.s][key] = Append(@, Listener(func, args))]]

\* on_change(key, func, args) on controller v, as [err, regs]: '*' stands
\* for all of v's keys, a key with a dot is resolved segment by segment, any
\* other key must be one of v's keys.
RECURSIVE on_change(_, _, _, _, _, _, _)
RECURSIVE on_change_keys(_, _, _, _, _, _, _)
RECURSIVE on_change_each(_, _, _, _, _, _, _)

\* The loop over the keys left after its first round.
on_change_keys_once(r, at, ord, v, ks, func, args) == r

\* `for k in key: self.on_change(k, func, args)`, after the call for the
\* key before ks ended as r
on_change_keys_next(r, at, ord, v, ks, func, args) ==
    IF r.err # "none" THEN r ELSE on_change_keys(r.regs, at, ord, v, ks, func, args)

on_change_keys(regs, at, ord, v, ks, func, args) ==
    IF ks = <<>> THEN [err |-> "none", regs |-> regs]
    ELSE on_change_keys_next(on_change(regs, at, ord, v, Head(ks), func, args),
                             at, ord, v, Tail(ks), func, args)

\* `for s in scope: s.on_change(final_key, func, args)`
on_change_each_next(r, at, ord, scopes, key, func, args) ==
    IF r.err # "none" THEN r ELSE on_change_each(r.regs, at, ord, scopes, key, func, args)

on_change_each(regs, at, ord, scopes, key, func, args) ==
    IF scopes = <<>> THEN [err |-> "none", regs |-> regs]
    ELSE IF ~IsController(Head(scopes)) THEN [err |-> "AttributeError", regs |-> regs]
    ELSE on_change_each_next(on_change(regs, at, ord, Head(scopes), key, func, args),
                             at, ord, Tail(scopes), key, func, args)

\* The end of the dot-path branch, the walk over the leading segments
\* having ended as w.
on_change_scope(w, regs, at, ord, key, func, args) ==
    IF w.err # "none" THEN [err |-> w.err, regs |-> regs]
    ELSE IF w.v.t = "list" THEN on_change_each(regs, at, ord, w.v.l, key, func, args)
    ELSE IF ~IsController(w.v) THEN [err |-> "AttributeError", regs |-> regs]
    ELSE on_change(regs, at, ord, w.v, key, func, args)

on_change(regs, at, ord, v, key, func, args) ==
    IF key = "*" THEN on_change_keys(regs, at, ord, v, KeysOf(v, ord), func, args)
    ELSE IF DotsOf(key) # {}
    THEN on_change_scope(ScopeWalk(at, ord, [err |-> "none", v |-> v], Front(Split(key))),
                         regs, at, ord, Split(key)[Len(Split(key))], func, args)
    ELSE IF has_data_key(v, ord, key) THEN Register(regs, v, key, func, args)
    ELSE [err |-> "ValueError", regs |-> regs]

\* The attribute names in a list of bindings, those of a binding to several
\* attributes one after the other: the keys off_change('*') recurses to.
RECURSIVE BindingNames(_)
BindingNames(bindings) ==
    IF bindings = <<>> THEN <<>>
    ELSE (IF Head(bindings).kind = "many" THEN Head(bindings).names
          ELSE <<Head(bindings).name>>) \o BindingNames(Tail(bindings))

\* `del self.__listeners[key]`: the dict holds a key from its first
\* registration on, so a key without listeners is a KeyError.
off_change_del(ls, key) ==
    IF key \notin DOMAIN ls \/ ls[key] = <<>>
    THEN [err |-> "KeyError", listeners |-> ls]
    ELSE [err |-> "none", listeners |-> [ls EXCEPT ![key] = <<>>]]

\* `for k in key: self.off_change(k)`
RECURSIVE off_change_each(_, _)
off_change_each_next(r, names) ==
    IF r.err # "none" THEN r ELSE off_change_each(r.listeners, names)

off_change_each(ls, names) ==
    IF names = <<>> THEN [err |-> "none", listeners |-> ls]
    ELSE off_change_each_next(off_change_del(ls, Head(names)), Tail(names))

\* off_change(key): '*' stands for self.__bindings.
off_change(ls, c, ord, key) ==
    IF key = "*" THEN off_change_each(ls, BindingNames(Bindings(c, ord)))
    ELSE off_change_del(ls, key)

\* A callback that assigns, on the controller that called it, the attribute
\* its field is bound to (the value the attribute holds, once more).
WritesBack(func) == func = "writeback"

\* The attribute such a callback assigns for a field.
WrittenBack(c, key) == PropName(MODEL_RULES(c)[key].binding)

\* The calls _call_listener is about to make for the keys ks, in order.
RECURSIVE Pending(_, _)
Pending(ls, ks) ==
    IF ks = <<>> THEN <<>>
    ELSE [i \in 1..Len(Called(ls[Head(ks)])) |->
            [key |-> Head(ks), listener |-> Called(ls[Head(ks)])[i]]]
            \o Pending(ls, Tail(ks))

\* The outcome of an assignment with the assignments its listeners make:
\* the exception that left it, the data, every listener call in the order
\* made, and the deepest nesting reached.
Nested(e, d, calls, depth) == [err |-> e, data |-> d, calls |-> calls, depth |-> depth]

RECURSIVE setattr_nested(_, _, _, _, _, _, _, _)
RECURSIVE call_pending(_, _, _, _, _, _, _, _, _)

\* After the assignment a callback made ended as r: its exception leaves
\* the loop over the listeners, else the next listener is called.
call_pending_next(r, at, c, ls, ord, io, depth, pending, calls) ==
    IF r.err # "none" THEN Nested(r.err, r.data, calls \o r.calls, r.depth)
    ELSE call_pending(r.data, at, c, ls, ord, io, depth, pending, calls \o r.calls)

\* _call_listener with callbacks that may write back, at nesting `depth`.
call_pending(d, at, c, ls, ord, io, depth, pending, calls) ==
    IF pending = <<>> THEN Nested("none", d, calls, depth)
    ELSE IF WritesBack(Head(pending).listener.func)
    THEN call_pending_next(
            setattr_nested(d, at, c, ls, WrittenBack(c, Head(pending).key), ord, io,
                           depth + 1),
            at, c, ls, ord, io, depth, Tail(pending),
            Append(calls, ListenerCall(Head(pending).listener, Head(pending).key,
                                       NoInstruction)))
    ELSE call_pending(d, at, c, ls, ord, io, depth, Tail(pending),
                      Append(calls, ListenerCall(Head(pending).listener,
                                                 Head(pending).key, NoInstruction)))

\* _update_model(key) inside __setattr__, update_from_binding having ended
\* as r; `except (AttributeError, NameError): pass` around it.
setattr_nested_refresh(r, at, c, ls, ord, io, depth) ==
    IF r.err \in Swallowed THEN Nested("none", r.data, <<>>, depth)
    ELSE IF r.err # "none" THEN Nested(r.err, r.data, <<>>, depth)
    ELSE call_pending(r.data, at, c, ls, ord, io, depth,
                      Pending(ls, Restrict(ord, r.done)), <<>>)

\* DataModelController.__setattr__ at nesting `depth`, the attribute already
\* set in at. Nothing in __setattr__, _update_model or _call_listener ends
\* the nesting; past MaxDepth the interpreter does.
setattr_nested(d, at, c, ls, key, ord, io, depth) ==
    IF depth > MaxDepth THEN Nested("RuntimeError", d, <<>>, MaxDepth)
    ELSE IF ~InBindings(Bindings(c, ord), key) THEN Nested("none", d, <<>>, depth)
    ELSE setattr_nested_refresh(update_from_binding(d, at, c, BoundName(key), ord, io),
                                at, c, ls, ord, io, depth)

\* _update_model_collection handing no instruction on to the listeners.
_update_model_collection_dispatch_bare(r, ls, ks, instruction) ==
    IF r.err # "none"
    THEN [err |-> r.err, data |-> r.data, derived |-> r.done, dispatched |-> {},
          calls |-> <<>>]
    ELSE [err |-> "none", data |-> r.data, derived |-> r.done, dispatched |-> r.done,
          calls |-> _call_listener(ls, ks, NoInstruction)]

\* _update_model_collection after the update_key calls ended as r: an
\* exception leaves before _call_listener, else the keys are dispatched
\* with the instruction.
_update_model_collection_dispatch(r, ls, ks, instruction) ==
    IF r.err # "none"
    THEN [err |-> r.err, data |-> r.data, derived |-> r.done, dispatched |-> {},
          calls |-> <<>>]
    ELSE [err |-> "none", data |-> r.data, derived |-> r.done, dispatched |-> r.done,
          calls |-> _call_listener(ls, ks, instruction)]

\* `for k in key: self.__model.update_key(self, k, instruction)`
RECURSIVE update_keys(_, _, _, _, _, _, _)
update_keys_next(r, at, c, ks, instruction, io, done) ==
    IF r.err # "none" THEN Pass(r.err, r.data, done)
    ELSE update_keys(r.data, at, c, Tail(ks), instruction, io, done \cup {Head(ks)})

update_keys(d, at, c, ks, instruction, io, done) ==
    IF ks = <<>> THEN Pass("none", d, done)
    ELSE update_keys_next(update_key(d, at, c, Head(ks), instruction, io),
                          at, c, ks, instruction, io, done)

\* DataModelController._update_model_collection(key, instruction), the key
\* or keys given as the sequence ks.
_update_model_collection(d, at, c, ls, ks, instruction, io) ==
    _update_model_collection_dispatch(update_keys(d, at, c, ks, instruction, io, {}),
                                      ls, ks, instruction)

----------------------------------------------------------------------------
\* Actions

\* controller.key = value
SetAttrDone(key, r) ==
    /\ data' = r.data
    /\ last' = [Call("setattr", key, r.err, r.caught, r.derived, r.dispatched, r.calls)
                    EXCEPT !.seen = r.seen]

SetAttrTo(key, at1) ==
    /\ attrs' = at1
    /\ SetAttrDone(key, DataModelController__setattr__(data, at1, cls, listeners, key,
                                                       order, itemOrder))
    /\ UNCHANGED <<enum, cls, order, itemOrder, modelAttrs, listeners, childListeners>>

SetAttr(key, value) == SetAttrTo(key, [attrs EXCEPT ![key] = value])

\* controller.model.update_key(controller, key)
UpdateKeyDone(key, r) ==
    /\ data' = r.data
    /\ last' = Call("update_key", key, r.err, "none",
                    IF r.err = "none" THEN {key} ELSE {}, {}, <<>>)

UpdateKey(key) ==
    /\ UpdateKeyDone(key, update_key(data, attrs, cls, key, NoInstruction, itemOrder))
    /\ UNCHANGED <<enum, cls, order, itemOrder, attrs, modelAttrs, listeners, childListeners>>

\* controller.on_change(key, func, args)
OnChangeDone(key, r) ==
    /\ listeners' = r.regs["self"]
    /\ childListeners' = [id \in ChildIds |-> r.regs[id]]
    /\ last' = Call("on_change", key, r.err, "none", {}, {}, <<>>)

\* The registrations all the controllers hold.
RECURSIVE SumRegistered(_, _)
SumRegistered(cl, S) ==
    IF S = {} THEN 0
    ELSE LET id == CHOOSE x \in S : TRUE IN Registered(cl[id]) + SumRegistered(cl, S \ {id})

AllRegistered == Registered(listeners) + SumRegistered(childListeners, ChildIds)

OnChangeWith(key, func, args) ==
    /\ OnChangeDone(key, on_change(Registries(listeners, childListeners), attrs, order,
                                   SelfRef(cls), key, func, args))
    /\ UNCHANGED <<enum, cls, order, itemOrder, attrs, data, modelAttrs>>

OnChange(key, func) ==
    /\ Registered(listeners) < MaxListeners
    /\ OnChangeWith(key, func, NoArgs)

\* controller.model.name = value, by an external caller
ModelSetAttrDone(name, r) ==
    /\ modelAttrs' = r.modelAttrs
    /\ last' = Call("model_setattr", name, r.err, "none", {}, {}, <<>>)

ModelSetAttr(name, value) ==
    /\ ModelSetAttrDone(name, DataModel__setattr__(data, modelAttrs, name, value))
    /\ UNCHANGED <<enum, cls, order, itemOrder, attrs, data, listeners, childListeners>>

\* controller.model[key] = value, by an external caller
ModelSetItemDone(key, r) ==
    /\ data' = r.data
    /\ last' = Call("model_setitem", key, r.err, "none", {}, {}, <<>>)

ModelSetItem(key, value) ==
    /\ ModelSetItemDone(key, DataModel__setitem__(data, key, value))
    /\ UNCHANGED <<enum, cls, order, itemOrder, attrs, modelAttrs, listeners, childListeners>>

Next ==
    \/ \E key \in ClassAttrs(cls) : \E value \in AttrValues(key) : SetAttr(key, value)
    \/ \E key \in Keys(cls) \cup {"other"} : UpdateKey(key)
    \/ \E key \in Keys(cls) \cup {"other"} : \E func \in Callbacks : OnChange(key, func)

Spec == Init /\ [][Next]_vars

\* The model handed to external callers that try to write to it.
NextProxy ==
    \/ \E key \in ClassAttrs(cls) : \E value \in AttrValues(key) : SetAttr(key, value)
    \/ \E name \in WriteNames : ModelSetAttr(name, StrA)
    \/ \E key \in WriteNames : ModelSetItem(key, StrA)

SpecProxy == Init /\ [][NextProxy]_vars

\* A controller constructed with the default update=True and then only
\* written to, every assignment returning without an exception.
SetAttrReturns(key, value) == SetAttr(key, value) /\ last'.err = "none"

NextWrites ==
    \E key \in ClassAttrs(cls) : \E value \in AttrValues(key) : SetAttrReturns(key, value)

SpecWrites == InitWith({TRUE}, Classes) /\ [][NextWrites]_vars

\* model.update_key(controller, key, instruction) with an instruction for
\* a collection: `last` keeps the instruction and the value the field held
\* before the call.
ListInstructions ==
    {[action |-> a, index |-> i, key |-> ""] : a \in {"remove", "insert"}, i \in 0..MaxLen}
        \cup {[action |-> a, index |-> 0, key |-> ""] : a \in {"append", "clear"}}
        \cup {[action |-> "add", index |-> 0, key |-> "x"]}

DictInstructions ==
    {[action |-> a, index |-> 0, key |-> k] : a \in {"remove", "add"}, k \in DictKeys}
        \cup {[action |-> a, index |-> 0, key |-> "x"] : a \in {"append", "clear"}}

Instructions(c, key) ==
    CASE MODEL_RULES(c)[key].type.kind = "list" -> ListInstructions
      [] MODEL_RULES(c)[key].type.kind = "dict" -> DictInstructions
      [] OTHER -> {}

\* The stored sequence may grow to one element more than a source list.
Grows(key, instruction) ==
    /\ instruction.action \in {"append", "insert"}
    /\ data[key] # Absent
    /\ Len(data[key].l) > MaxLen

UpdateKeyInstructionDone(key, instruction, r) ==
    /\ data' = r.data
    /\ last' = [Call("update_key", key, r.err, "none",
                     IF r.err = "none" THEN {key} ELSE {}, {}, <<>>)
                    EXCEPT !.instruction = instruction, !.before = data[key]]

UpdateKeyInstruction(key, instruction) ==
    /\ ~Grows(key, instruction)
    /\ UpdateKeyInstructionDone(key, instruction,
                                update_key(data, attrs, cls, key, instruction, itemOrder))
    /\ UNCHANGED <<enum, cls, order, itemOrder, attrs, modelAttrs, listeners, childListeners>>

\* model.update_all(controller); `repeated` tells that the call before was
\* an update_all as well.
UpdateAllDone(r) ==
    /\ data' = r.data
    /\ last' = [Call("update_all", "", r.err, "none", r.done, {}, <<>>)
                    EXCEPT !.repeated = (last.op = "update_all")]

UpdateAll ==
    /\ UpdateAllDone(update_all(data, attrs, cls, order, itemOrder))
    /\ UNCHANGED <<enum, cls, order, itemOrder, attrs, modelAttrs, listeners, childListeners>>

\* Precise collection updates on the classes that declare a collection.
CollectionClasses == {"Book", "Shelf", "PhoneBook"}

InitInstruction == Init /\ cls \in CollectionClasses

NextInstruction ==
    \/ \E key \in ClassAttrs(cls) : \E value \in AttrValues(key) : SetAttr(key, value)
    \/ \E key \in Keys(cls) : UpdateKey(key)
    \/ \E key \in Keys(cls) : \E instruction \in Instructions(cls, key) :
            UpdateKeyInstruction(key, instruction)
    \/ UpdateAll

SpecInstruction == InitInstruction /\ [][NextInstruction]_vars

\* controller._update_model(): the full refresh
FullRefreshDone(r) ==
    /\ data' = r.data
    /\ last' = Call("_update_model", "", r.err, "none", r.derived, r.dispatched, r.calls)

FullRefresh ==
    /\ FullRefreshDone(_update_model(data, attrs, cls, listeners, BoundNone, order,
                                     itemOrder))
    /\ UNCHANGED <<enum, cls, order, itemOrder, attrs, modelAttrs, listeners, childListeners>>

\* controller._update_model_collection(key, instruction)
UpdateModelCollectionDone(key, instruction, r) ==
    /\ data' = r.data
    /\ last' = [Call("_update_model_collection", key, r.err, "none", r.derived,
                     r.dispatched, r.calls)
                    EXCEPT !.instruction = instruction, !.before = data[key],
                           !.keys = <<key>>]

UpdateModelCollection(key, instruction) ==
    /\ ~Grows(key, instruction)
    /\ UpdateModelCollectionDone(key, instruction,
            _update_model_collection(data, attrs, cls, listeners, <<key>>, instruction,
                                     itemOrder))
    /\ UNCHANGED <<enum, cls, order, itemOrder, attrs, modelAttrs, listeners, childListeners>>

\* controller._update_model_collection([key, ...], instruction)
UpdateModelCollectionKeysDone(ks, instruction, r) ==
    /\ data' = r.data
    /\ last' = [Call("_update_model_collection", "", r.err, "none", r.derived,
                     r.dispatched, r.calls)
                    EXCEPT !.instruction = instruction, !.keys = ks]

UpdateModelCollectionKeys(ks, instruction) ==
    /\ \A i \in 1..Len(ks) : ~Grows(ks[i], instruction)
    /\ UpdateModelCollectionKeysDone(ks, instruction,
            _update_model_collection(data, attrs, cls, listeners, ks, instruction,
                                     itemOrder))
    /\ UNCHANGED <<enum, cls, order, itemOrder, attrs, modelAttrs, listeners, childListeners>>

\* Listeners with and without extra arguments, several on one key, on the
\* class with a collection beside a scalar field.
ListenClasses == {"Book"}

\* The (func, args) pairs a caller registers.
Registrations == {Listener("cb", NoArgs), Listener("cb2", ArgList(<<"extra">>))}

OnChangeListen(key, func, args) ==
    /\ Registered(listeners) <= MaxListeners
    /\ OnChangeWith(key, func, args)

InitListen == Init /\ cls \in ListenClasses

NextListen ==
    \/ \E key \in Keys(cls) \cup {"*"} : \E listener \in Registrations :
            OnChangeListen(key, listener.func, listener.args)
    \/ FullRefresh
    \/ \E key \in Keys(cls) : \E instruction \in Instructions(cls, key) :
            UpdateModelCollection(key, instruction)

SpecListen == InitListen /\ [][NextListen]_vars

\* Precise collection updates of one field or of several, with listeners
\* on the fields.
NextKeys ==
    \/ \E key \in Keys(cls) \cup {"*"} : \E func \in Callbacks : OnChange(key, func)
    \/ \E key \in Keys(cls) : \E instruction \in Instructions(cls, key) :
            UpdateModelCollection(key, instruction)
    \/ \E ks \in Orders(Keys(cls)) : \E instruction \in DictInstructions :
            UpdateModelCollectionKeys(ks, instruction)

SpecKeys == InitListen /\ [][NextKeys]_vars

\* Listeners registered with dot paths on a Directory.
Paths == {"entries.name", "entries.number", "entries.owner.name", "entries.bogus.name",
          "owner.name", "bogus.name"}

OnChangePath(key, func) ==
    /\ AllRegistered < MaxListeners
    /\ OnChangeWith(key, func, NoArgs)

InitPath == InitWith(BOOLEAN, PathClasses)

NextPath ==
    \/ \E key \in ClassAttrs(cls) : \E value \in AttrValues(key) : SetAttr(key, value)
    \/ \E key \in Paths : \E func \in Callbacks : OnChangePath(key, func)

SpecPath == InitPath /\ [][NextPath]_vars

\* controller.off_change(key)
OffChangeDone(key, r) ==
    /\ listeners' = r.listeners
    /\ last' = Call("off_change", key, r.err, "none", {}, {}, <<>>)

OffChange(key) ==
    /\ OffChangeDone(key, off_change(listeners, cls, order, key))
    /\ UNCHANGED <<enum, cls, order, itemOrder, attrs, data, modelAttrs, childListeners>>

\* Listeners registered and removed again, on a class whose fields are
\* bound to attributes of their own name and on one whose are not.
OffClasses == {"Book", "Person"}

InitOff == InitWith({TRUE}, OffClasses)

NextOff ==
    \/ \E key \in Keys(cls) \cup {"*"} : \E listener \in Registrations :
            OnChangeListen(key, listener.func, listener.args)
    \/ \E key \in Keys(cls) \cup {"*"} : OffChange(key)
    \/ FullRefresh

SpecOff == InitOff /\ [][NextOff]_vars

\* controller.key = value on a controller some of whose listeners write
\* back to it; `last.depth` is the deepest nesting of assignments reached.
SetAttrNestedDone(key, r) ==
    /\ data' = r.data
    /\ last' = [Call("setattr_nested", key, r.err, "none", {}, {}, r.calls)
                    EXCEPT !.depth = r.depth]

SetAttrNested(key, value) ==
    /\ attrs' = [attrs EXCEPT ![key] = value]
    /\ SetAttrNestedDone(key, setattr_nested(data, [attrs EXCEPT ![key] = value], cls,
                                             listeners, key, order, itemOrder, 1))
    /\ UNCHANGED <<enum, cls, order, itemOrder, modelAttrs, listeners, childListeners>>

\* The callbacks registered: one that only looks, one that writes back.
NestedRegistrations == {Listener("cb", NoArgs), Listener("writeback", NoArgs)}

InitNested == InitWith({TRUE}, OffClasses)

NextNested ==
    \/ \E key \in Keys(cls) : \E listener \in NestedRegistrations :
            OnChangeListen(key, listener.func, listener.args)
    \/ \E key \in ClassAttrs(cls) : \E value \in AttrValues(key) : SetAttrNested(key, value)

SpecNested == InitNested /\ [][NextNested]_vars

\* Controller.restore(data_store, controller.model): when it returns, the
\* new controller stands in for the old one; the model is the same object
\* either way.
RestoreDone(r) ==
    /\ data' = r.data
    /\ attrs' = IF r.err = "none" THEN r.attrs ELSE attrs
    /\ listeners' = IF r.err = "none" THEN [k \in AllKeys |-> <<>>] ELSE listeners
    /\ last' = Call("restore", "", r.err, "none", {}, {}, <<>>)

Restore(ks) ==
    /\ RestoreDone(restore(data, cls, ks, order, itemOrder))
    /\ UNCHANGED <<enum, cls, order, itemOrder, modelAttrs, childListeners>>

\* A class that declares uid and fields of its own, and one without uid.
RestoreClasses == {"Person", "Book"}

InitRestore == InitWith({TRUE}, RestoreClasses)

NextRestore ==
    \/ \E key \in ClassAttrs(cls) : \E value \in AttrValues(key) : SetAttr(key, value)
    \/ \E ks \in Orders(ClassAttrs(cls) \cup {"uid"}) : Restore(ks)

SpecRestore == InitRestore /\ [][NextRestore]_vars

\* E = Enum(*args) or E = EnumInt(*args)
EnumNewDone(r) ==
    enum' = [enum EXCEPT !.state = IF r.err = "none" THEN "made" ELSE "failed",
                         !.err = r.err, !.obj = r.obj, !.op = "__init__"]

EnumNew ==
    /\ enum.state = "args"
    /\ EnumNewDone(IF enum.cls = "EnumInt" THEN EnumInt__init__(enum.args)
                   ELSE Enum__init__(enum.args))
    /\ UNCHANGED <<cls, order, itemOrder, attrs, data, modelAttrs, listeners,
                   childListeners, last>>

\* E.name_of(value)
EnumLookupDone(op, r) == enum' = [enum EXCEPT !.err = r.err, !.out = r.v, !.op = op]

EnumNameOf(value) ==
    /\ enum.state = "made"
    /\ EnumLookupDone("name_of", name_of(enum.obj, value))
    /\ UNCHANGED <<cls, order, itemOrder, attrs, data, modelAttrs, listeners,
                   childListeners, last>>

\* E[name]
EnumGetItem(name) ==
    /\ enum.state = "made"
    /\ EnumLookupDone("__getitem__", Enum__getitem__(enum.obj, name))
    /\ UNCHANGED <<cls, order, itemOrder, attrs, data, modelAttrs, listeners,
                   childListeners, last>>

\* No controller is constructed where enums are made.
NoController ==
    /\ cls = ""
    /\ order = <<>>
    /\ itemOrder = <<>>
    /\ attrs = [a \in AttrNames |-> Absent]
    /\ data = EmptyData
    /\ modelAttrs = [n \in WriteNames |-> Absent]
    /\ listeners = [k \in AllKeys |-> <<>>]
    /\ childListeners = [id \in ChildIds |-> [k \in AllKeys |-> <<>>]]
    /\ last = Call("init", "", "none", "none", {}, {}, <<>>)

\* The values name_of is asked for.
LookupValues ==
    {IntValue(i) : i \in 0..(MaxArgs + 1)} \cup {StrValue(n) : n \in EnumNames}

InitEnum ==
    /\ NoController
    /\ \E c \in {"Enum", "EnumInt"}, args \in SeqsUpTo(EnumNames, MaxArgs) :
            enum = EnumState("args", c, args, "none", Instance(c, <<>>, FALSE, <<>>),
                             NoValue)

NextEnum ==
    \/ EnumNew
    \/ \E value \in LookupValues : EnumNameOf(value)
    \/ \E name \in EnumNames : EnumGetItem(name)

SpecEnum == InitEnum /\ [][NextEnum]_vars

\* The source list of a List field changed in place (append, insert or
\* del on the list the attribute holds, no assignment to the attribute):
\* `last` keeps the instruction that matches the change and the list as it
\* was.
ElementsFor(key) ==
    IF MODEL_RULES(cls)[key].operation = "scope_model"
    THEN {Scalar("PhoneRecord", "r1"), Scalar("PhoneRecord", "r2")}
    ELSE {StrA, StrB}

\* del items[index]
DeleteAt(items, index) == SubSeq(items, 1, index) \o SubSeq(items, index + 2, Len(items))

Changed(items, instruction, e) ==
    CASE instruction.action = "append" -> Append(items, e)
      [] instruction.action = "insert" -> InsertAt(items, instruction.index, e)
      [] instruction.action = "remove" -> DeleteAt(items, instruction.index)

SourceSteps ==
    {[action |-> a, index |-> i, key |-> ""] : a \in {"remove", "insert"}, i \in 0..MaxLen}
        \cup {[action |-> "append", index |-> 0, key |-> ""]}

SourceStep(key, instruction, e) ==
    /\ MODEL_RULES(cls)[key].type.kind = "list"
    /\ attrs[MODEL_RULES(cls)[key].binding.name].t = "list"
    /\ IF instruction.action = "remove"
       THEN instruction.index < Len(attrs[MODEL_RULES(cls)[key].binding.name].l)
       ELSE /\ instruction.index <= Len(attrs[MODEL_RULES(cls)[key].binding.name].l)
            /\ Len(attrs[MODEL_RULES(cls)[key].binding.name].l) <= MaxLen
    /\ attrs' = [attrs EXCEPT ![MODEL_RULES(cls)[key].binding.name] =
                    ListValue(Changed(@.l, instruction, e))]
    /\ last' = [Call("source_step", key, "none", "none", {}, {}, <<>>)
                    EXCEPT !.instruction = instruction,
                           !.before = attrs[MODEL_RULES(cls)[key].binding.name]]
    /\ UNCHANGED <<enum, cls, order, itemOrder, data, modelAttrs, listeners, childListeners>>

\* The classes with a List field.
ListClasses == {"Shelf", "PhoneBook"}

InitSteps == InitWith({TRUE}, ListClasses)

NextSteps ==
    \/ \E key \in Keys(cls) : \E instruction \in SourceSteps : \E e \in ElementsFor(key) :
            SourceStep(key, instruction, e)
    \/ \E key \in Keys(cls) : \E instruction \in Instructions(cls, key) :
            UpdateKeyInstruction(key, instruction)
    \/ \E key \in Keys(cls) : UpdateKey(key)

SpecSteps == InitSteps /\ [][NextSteps]_vars

----------------------------------------------------------------------------
\* Listeners that raise

\* What a registered callback does when it is called: "cb" returns, each of
\* the others raises the exception it is named after.
Raises(func) ==
    CASE func = "cb_attr" -> "AttributeError"
      [] func = "cb_name" -> "NameError"
      [] func = "cb_type" -> "TypeError"
      [] func = "cb_value" -> "ValueError"
      [] OTHER -> "none"

\* The first of the calls whose callback raises (0 when every one returns).
FirstRaising(calls) ==
    IF \E i \in 1..Len(calls) : Raises(calls[i].cb) # "none"
    THEN Min({i \in 1..Len(calls) : Raises(calls[i].cb) # "none"})
    ELSE 0

\* _call_listener making the calls one after the other: a callback that
\* raises ends the loops, with the calls after it not made.
_call_listener_raising(calls) ==
    IF FirstRaising(calls) = 0 THEN [err |-> "none", calls |-> calls]
    ELSE [err |-> Raises(calls[FirstRaising(calls)].cb),
          calls |-> SubSeq(calls, 1, FirstRaising(calls))]

\* _update_model after update_from_binding returned as r and _call_listener
\* ended as called.
_update_model_called(r, called) ==
    [err |-> called.err, data |-> r.data, derived |-> r.done,
     dispatched |-> {called.calls[i].key : i \in 1..Len(called.calls)},
     calls |-> called.calls, seen |-> Seen(called.calls, r.data)]

\* _update_model after update_from_binding ended as r: an exception leaves
\* before _call_listener.
_update_model_dispatch_raising(r, ls, ord) ==
    IF r.err # "none"
    THEN [err |-> r.err, data |-> r.data, derived |-> r.done, dispatched |-> {},
          calls |-> <<>>, seen |-> <<>>]
    ELSE _update_model_called(
            r, _call_listener_raising(
                   _call_listener(ls, Restrict(ord, r.done), NoInstruction)))

\* The body of the try statement of __setattr__, after the attribute itself
\* is set: how it ends, before the except clause.
refresh_raising(d, at, c, ls, key, ord, io) ==
    IF InBindings(Bindings(c, ord), key)
    THEN _update_model_dispatch_raising(
            update_from_binding(d, at, c, BoundName(key), ord, io), ls, ord)
    ELSE [err |-> "none", data |-> d, derived |-> {}, dispatched |-> {},
          calls |-> <<>>, seen |-> <<>>]

\* DataModelController.__setattr__ with callbacks that may raise.
setattr_raising(d, at, c, ls, key, ord, io) ==
    SwallowErrors(refresh_raising(d, at, c, ls, key, ord, io))

\* controller.key = value; `last.raised` is the exception that left the try
\* body, `last.err` the one that left the assignment.
SetAttrRaisingDone(key, body, r) ==
    /\ data' = r.data
    /\ last' = [Call("setattr_raising", key, r.err, r.caught, r.derived, r.dispatched,
                     r.calls)
                    EXCEPT !.seen = r.seen, !.raised = body.err]

SetAttrRaising(key, value) ==
    /\ attrs' = [attrs EXCEPT ![key] = value]
    /\ SetAttrRaisingDone(key,
                          refresh_raising(data, [attrs EXCEPT ![key] = value], cls,
                                          listeners, key, order, itemOrder),
                          setattr_raising(data, [attrs EXCEPT ![key] = value], cls,
                                          listeners, key, order, itemOrder))
    /\ UNCHANGED <<enum, cls, order, itemOrder, modelAttrs, listeners, childListeners>>

\* The callbacks registered: one that returns, two that raise what the
\* assignment suppresses and one that raises what it does not.
RaisingRegistrations ==
    {Listener(func, NoArgs) : func \in {"cb", "cb_attr", "cb_name", "cb_value"}}

\* The fields listeners are registered for.
RaisingKeys == {"_collection", "owner"}

\* A class whose operation raises AttributeError on some values and one
\* whose operation raises NameError.
RaisingClasses == {"Meter", "Gauge"}

InitRaising == InitWith(BOOLEAN, RaisingClasses)

NextRaising ==
    \/ \E key \in Keys(cls) \cap RaisingKeys : \E listener \in RaisingRegistrations :
            OnChangeListen(key, listener.func, listener.args)
    \/ \E key \in ClassAttrs(cls) : \E value \in AttrValues(key) : SetAttrRaising(key, value)

SpecRaising == InitRaising /\ [][NextRaising]_vars

----------------------------------------------------------------------------
\* Claims

RuleOf(key) == MODEL_RULES(cls)[key]

\* The keys whose rule names exactly this attribute, those bound to a list
\* holding it, and the root-bound keys.
FieldsBoundTo(attr) ==
    {k \in Keys(cls) :
        \/ RuleOf(k).binding = NoBinding
        \/ RuleOf(k).binding = One(attr)
        \/ (RuleOf(k).binding.kind = "many"
              /\ \E i \in 1..Len(RuleOf(k).binding.names) : RuleOf(k).binding.names[i] = attr)}

\* The keys update_from_binding returns for one attribute name, when it
\* returns.
ReturnedKeys(attr) ==
    {k \in Keys(cls) : MatchesName(RuleOf(k).binding, attr) = "yes"}

\* The refresh of the last assignment ran to its end: no exception left
\* it, propagated or swallowed.
RefreshCompleted == last.op = "setattr" /\ last.err = "none" /\ last.caught = "none"

\* The listener calls of the last operation made for one key.
CallsOf(key) == SelectSeq(last.calls, LAMBDA call : call.key = key)

\* What an assignment dispatches and derives: the keys update_from_binding
\* returns for a bound attribute, nothing for any other attribute.
DispatchedIsDerived ==
    /\ last.dispatched = last.derived
    /\ last.derived = IF InBindings(Bindings(cls, order), last.key)
                      THEN ReturnedKeys(last.key) ELSE {}

C1_WitnessUnbound ==
    /\ RefreshCompleted
    /\ ~InBindings(Bindings(cls, order), last.key)

\* C2: after construction and error-free assignments, every field bound to
\* one attribute with a plain type or none holds operation(attribute).
C2_ScalarFieldsCurrent ==
    \A k \in Keys(cls) :
        (RuleOf(k).binding.kind = "one" /\ RuleOf(k).type.kind \in {"plain", "none"})
            => data[k] = Apply(RuleOf(k).operation, attrs[RuleOf(k).binding.name]).v

\* C3: an attribute-style assignment on a constructed model fails with the
\* read-only error (and so leaves the model as it was).
C3_AttributeWriteRejected == last.op = "model_setattr" => last.err = "ValueError"

\* C4: an indexed assignment on the model fails with the read-only error
\* and leaves the stored values unchanged, for declared and other keys.
C4_ItemWriteRejected ==
    [][last'.op = "model_setitem" => (last'.err = "ValueError" /\ data' = data)]_vars

\* An indexed assignment to a declared key that holds a value.
C4_Witness ==
    /\ last.op = "model_setitem"
    /\ last.key \in Keys(cls)
    /\ data[last.key] # Absent

\* One listener call for the key, with the key's name and no instruction.
CalledOnce(k) ==
    /\ k \in last.derived
    /\ Len(CallsOf(k)) = 1
    /\ CallsOf(k)[1].key = k
    /\ CallsOf(k)[1].instruction = NoneInstruction
    /\ CallsOf(k)[1].cb = listeners[k][1].func

\* The keys bound to the attribute just assigned that have one listener.
ListenedKeys ==
    {k \in Keys(cls) : RuleOf(k).binding = One(last.key) /\ Len(listeners[k]) = 1}

C6_ExactlyBoundFields ==
    (RefreshCompleted /\ InBindings(Bindings(cls, order), last.key))
        => last.derived = FieldsBoundTo(last.key)

\* The value update_key reads for a key's rule: the bound attribute, or the
\* controller itself for a root-bound rule.
SourceOf(k) ==
    IF RuleOf(k).binding.kind = "one" THEN attrs[RuleOf(k).binding.name] ELSE SelfRef(cls)

\* update_key(key) with no instruction was the last operation, on a
\* declared key whose source resolves and whose rule has this kind of type.
UpdatedKey(kind) ==
    /\ last.op = "update_key"
    /\ last.key \in Keys(cls)
    /\ RuleOf(last.key).type.kind = kind
    /\ RuleOf(last.key).binding.kind \in {"none", "one"}
    /\ SourceOf(last.key) # Absent

\* The outcome of a plain-typed update whose operation returned y.
PlainOutcome(k, y, before, after, err) ==
    IF IsInstance(y, RuleOf(k).type.type)
    THEN err = "none" /\ after = y
    ELSE err = "TypeError" /\ after = before

\* C7: for a field with a plain type, update_key validates the result of
\* the operation: an instance of the type is stored, anything else fails
\* with TypeError and the stored value stays what it was.
C7_PlainValidatesResult ==
    [][(UpdatedKey("plain")' /\ Apply(RuleOf(last'.key).operation, SourceOf(last'.key)).err = "none")
        => PlainOutcome(last'.key,
                        Apply(RuleOf(last'.key).operation, SourceOf(last'.key)).v,
                        data[last'.key], data'[last'.key], last'.err)]_vars

\* A plain-typed update rejected while the field holds an earlier value.
C7_Witness ==
    /\ UpdatedKey("plain")
    /\ last.err = "TypeError"
    /\ data[last.key] # Absent

\* A plain-typed update that stored a transformed value.
C7_WitnessStored ==
    /\ UpdatedKey("plain")
    /\ last.err = "none"
    /\ data[last.key] # SourceOf(last.key)

\* C8: for a field with no type, update_key stores operation(source) and
\* never fails with the type-mismatch error.
C8_UntypedNeverTypeError ==
    (last.op = "update_key" /\ last.key \in Keys(cls) /\ RuleOf(last.key).type.kind = "none")
        => /\ last.err # "TypeError"
           /\ last.err = "none" => data[last.key] = Apply(RuleOf(last.key).operation,
                                                          SourceOf(last.key)).v

\* Every element of the source list passes the operation and the element
\* type.
AllItemsValid(k, items) ==
    \A i \in 1..Len(items) :
        ItemError(RuleOf(k).operation, RuleOf(k).type.type, items[i]) = "none"

\* The sequence of operation(x) for x in items, in order.
Transformed(k, items) ==
    ListValue([i \in 1..Len(items) |-> Apply(RuleOf(k).operation, items[i]).v])

\* C9: for a List field and no instruction, update_key fails with
\* TypeError when the source is not a list, and otherwise, when every
\* transformed element is of the element type, stores the sequence of
\* operation(x) in order.
C9_ListReplaced ==
    UpdatedKey("list")
        => IF SourceOf(last.key).t # "list" THEN last.err = "TypeError"
           ELSE AllItemsValid(last.key, SourceOf(last.key).l)
                    => /\ last.err = "none"
                       /\ data[last.key] = Transformed(last.key, SourceOf(last.key).l)

\* A list of two different elements stored in order.
C9_Witness ==
    /\ UpdatedKey("list")
    /\ last.err = "none"
    /\ Len(data[last.key].l) = 2
    /\ data[last.key].l[1] # data[last.key].l[2]

\* A list field whose operation changes its elements.
C9_WitnessTransformed ==
    /\ UpdatedKey("list")
    /\ last.err = "none"
    /\ data[last.key].l # <<>>
    /\ data[last.key] # SourceOf(last.key)

\* The mapping k -> operation(source[k]).
TransformedDict(k, items) ==
    DictValue([i \in DOMAIN items |-> Apply(RuleOf(k).operation, items[i]).v])

\* C10: for a Dict field and no instruction, update_key on a valid source
\* stores the mapping {k: operation(source[k])} as the value of that field
\* and changes the stored value of no other field.
C10_DictReplaced ==
    [][(UpdatedKey("dict")' /\ last'.err = "none")
        => /\ data'[last'.key] = TransformedDict(last'.key, SourceOf(last'.key).d)
           /\ \A k \in DataKeys \ {last'.key} : data'[k] = data[k]]_vars

\* update_key(key) with no instruction was the last operation, on a
\* collection field whose source is a collection of the field's kind.
ReplacedCollection ==
    /\ last.instruction = NoInstruction
    /\ \/ UpdatedKey("list") /\ SourceOf(last.key).t = "list"
       \/ UpdatedKey("dict") /\ SourceOf(last.key).t = "dict"

\* C11: a full replacement of a collection field that fails validation on
\* an element leaves the field's stored value and every other stored value
\* of the model as they were before the call.
C11_FailedReplacementKeepsData ==
    [][(ReplacedCollection' /\ last'.err = "TypeError") => data' = data]_vars

\* update_key(key, instruction) with this action was the last operation,
\* on a declared key of this kind whose source resolves.
Instructed(kind, action) ==
    /\ UpdatedKey(kind)
    /\ last.instruction.action = action

\* The outcome of appending item y to a List field.
AppendOutcome(k, y, before, after, err) ==
    IF ItemInvalid(y, RuleOf(k).type.type)
    THEN err = "TypeError" /\ after = before
    ELSE err = "none" /\ after = ListValue(Append(before.l, y))

\* The element at the highest position of the source list of key k.
LastOfSource(k) == SourceOf(k).l[Len(SourceOf(k).l)]

\* The source of the last call is a list with a last element that the
\* operation accepts, and the field holds a sequence.
AppendsFromList ==
    /\ Instructed("list", "append")
    /\ SourceOf(last.key).t = "list"
    /\ SourceOf(last.key).l # <<>>
    /\ last.before # Absent
    /\ Apply(RuleOf(last.key).operation, LastOfSource(last.key)).err = "none"

\* C12: an append instruction on a List field appends operation(last
\* element of the source list) to the stored sequence and keeps the earlier
\* elements; an item that is not of the element type fails with TypeError
\* and the stored sequence is unchanged.
C12_AppendLastElement ==
    [][AppendsFromList'
        => AppendOutcome(last'.key,
                         Apply(RuleOf(last'.key).operation,
                               LastOfSource(last'.key)).v,
                         data[last'.key], data'[last'.key], last'.err)]_vars

\* An append that stored a transformed element after two earlier ones.
C12_Witness ==
    /\ AppendsFromList
    /\ last.err = "none"
    /\ Len(data[last.key].l) = 3

\* An append rejected for the element type.
C12_WitnessRejected ==
    /\ AppendsFromList
    /\ last.err = "TypeError"
    /\ data[last.key].l # <<>>

\* The last call appended to a List field and returned.
Appended == Instructed("list", "append") /\ last.err = "none"

\* C13: on a List field holding N elements, an append followed by a remove
\* with index N gives back the original stored sequence, also when equal
\* elements sit at several positions.
C13_AppendRemoveRestores ==
    [][(/\ Appended
        /\ Instructed("list", "remove")'
        /\ last'.key = last.key
        /\ last'.instruction.index = Len(last.before.l)
        /\ last'.err = "none")
        => data'[last.key] = last.before]_vars

\* The last call added an item to a Dict field and returned.
Added == Instructed("dict", "add") /\ last.err = "none"

\* A step that removes, without error, the key the last call added.
RemovesAdded ==
    /\ Added
    /\ Instructed("dict", "remove")'
    /\ last'.key = last.key
    /\ last'.instruction.key = last.instruction.key
    /\ last'.err = "none"

\* C14 as stated: add k then remove k leaves the key set of the stored map
\* as it was before the add, and the value k had before the add is gone.
C14_KeySetUnchanged ==
    [][RemovesAdded
        => /\ DOMAIN data'[last.key].d = DOMAIN last.before.d
           /\ last.instruction.key \notin DOMAIN data'[last.key].d]_vars

\* C14 amended: add k then remove k leaves the stored map without k and
\* with every other entry as before the add; the key set is the one before
\* the add exactly when k was not in it.
C14_KeyRemoved ==
    [][RemovesAdded
        => /\ DOMAIN data'[last.key].d = (DOMAIN last.before.d) \ {last.instruction.key}
           /\ \A j \in DOMAIN data'[last.key].d : data'[last.key].d[j] = last.before.d[j]]_vars

\* A key removed after it was added over an entry the map already had.
C14_Witness ==
    /\ Instructed("dict", "remove")
    /\ last.err = "none"
    /\ last.before # Absent
    /\ last.instruction.key \in DOMAIN last.before.d
    /\ DOMAIN data[last.key].d # {}

\* The action of the last instruction is none the field's kind handles.
UnknownAction ==
    \/ UpdatedKey("list") /\ last.instruction.action \notin {"none", "remove", "append", "insert"}
    \/ UpdatedKey("dict") /\ last.instruction.action \notin {"none", "remove", "add"}

\* C15: an instruction with an action the collection kind does not handle
\* makes update_key fail with ValueError and leaves every stored value as
\* it was.
C15_UnknownActionRejected ==
    [][UnknownAction' => (last'.err = "ValueError" /\ data' = data)]_vars

\* An unknown action rejected on a field that holds elements.
C15_Witness ==
    /\ UnknownAction
    /\ last.err = "ValueError"
    /\ last.before # Absent
    /\ last.before.l # <<>>

\* C16: update_all called twice in a row, no attribute changed in between,
\* leaves after the second call the values the first call left.
C16_UpdateAllIdempotent ==
    [][(last'.op = "update_all" /\ last'.repeated) => data' = data]_vars

\* A second update_all in a row on a model whose list field holds elements
\* and that returned.
C16_Witness ==
    /\ last.op = "update_all"
    /\ last.repeated
    /\ last.err = "none"
    /\ \E k \in Keys(cls) : RuleOf(k).type.kind = "list" /\ data[k].l # <<>>

\* A second update_all in a row over a dict field and a scalar field, ended
\* by an exception.
C16_WitnessRaised ==
    /\ last.op = "update_all"
    /\ last.repeated
    /\ last.err # "none"
    /\ \E k \in Keys(cls) : RuleOf(k).type.kind = "dict" /\ data[k] # Absent

\* The last operation dispatched listeners and no exception left it.
Dispatched ==
    /\ last.op \in {"setattr", "_update_model", "_update_model_collection"}
    /\ last.err = "none"
    /\ last.caught = "none"

\* The call a registered listener is owed for key k by the last operation.
CallOwed(listener, k) ==
    [cb |-> listener.func, key |-> k,
     instruction |-> IF last.instruction = NoInstruction THEN NoneInstruction
                     ELSE last.instruction,
     args |-> IF listener.args.given THEN listener.args.items ELSE <<>>]

\* C17: _call_listener for a field calls every callback registered for the
\* field once, in registration order, with the field's name, the
\* instruction and the extra args of the registration; a field without
\* listeners gets no call and no error.
C17_ListenersCalledInOrder ==
    Dispatched
        => /\ \A k \in last.dispatched :
                CallsOf(k) = [i \in 1..Len(listeners[k]) |-> CallOwed(listeners[k][i], k)]
           /\ \A i \in 1..Len(last.calls) : last.calls[i].key \in last.dispatched

\* Two different listeners of one field called with an instruction.
C17_Witness ==
    /\ Dispatched
    /\ last.op = "_update_model_collection"
    /\ Len(listeners[last.key]) = 2
    /\ listeners[last.key][1] # listeners[last.key][2]
    /\ Len(last.calls) = 2

\* A field without listeners dispatched beside one that has some.
C17_WitnessNoListener ==
    /\ Dispatched
    /\ \E k \in last.dispatched : listeners[k] = <<>>
    /\ last.calls # <<>>

\* The positions of a listener among those registered for key k.
PositionsOf(listener, k) == {i \in 1..Len(listeners[k]) : listeners[k][i] = listener}

\* The listeners that are registered exactly once under every declared
\* field, as on_change('*', ...) leaves them.
OnEveryField ==
    {listener \in Registrations :
        \A k \in Keys(cls) : Cardinality(PositionsOf(listener, k)) = 1}

\* The calls of the last operation that went to the listener for key k.
CallsTo(listener, k) ==
    {i \in 1..Len(last.calls) :
        last.calls[i].cb = listener.func /\ last.calls[i].key = k}

\* Every listener registered once under every field was called exactly
\* once per declared field, with that field's name.
OncePerField ==
    \A listener \in OnEveryField : \A k \in Keys(cls) :
        Cardinality(CallsTo(listener, k)) = 1

\* on_change('*', ...) that returned appended one and the same listener
\* under every declared field.
RegistersOnEveryField ==
    (last'.op = "on_change" /\ last'.key = "*" /\ last'.err = "none" /\ last' # last)
        => \E listener \in Registrations : \A k \in Keys(cls) :
                listeners'[k] = Append(listeners[k], listener)

\* C18 as stated: on_change('*', cb) registers cb under every declared
\* field, and a following full refresh calls cb exactly once per declared
\* field, each time with that field's name.
C18_EveryRefresh ==
    /\ [](last.op = "_update_model" => OncePerField)
    /\ [][RegistersOnEveryField]_vars

\* C18 amended: the same, for a full refresh that raises no exception.
C18_CompletedRefresh ==
    /\ []((last.op = "_update_model" /\ last.err = "none") => OncePerField)
    /\ [][RegistersOnEveryField]_vars

\* A full refresh that returned, with a listener under both fields.
C18_Witness ==
    /\ last.op = "_update_model"
    /\ last.err = "none"
    /\ OnEveryField # {}
    /\ Cardinality(Keys(cls)) > 1
    /\ Len(last.calls) >= Cardinality(Keys(cls))

\* A dot path whose first segment is the Directory's list of entries.
EntryPaths == {key \in Paths : Split(key)[1] = "entries"}

\* The controller the leading segments of the path reach from one entry:
\* the entry itself, or its owner when the path goes on through `owner`.
ReachedFrom(entry, key) ==
    IF Len(Split(key)) = 3 THEN ChildAttrs(entry.s, Split(key)[2]) ELSE entry

\* How many entries of the list lead to the controller id.
TimesReached(id, key) ==
    Cardinality({i \in 1..Len(attrs["entries"].l) :
                    ReachedFrom(attrs["entries"].l[i], key).s = id})

\* n registrations of the same listener.
Copies(listener, n) == [i \in 1..n |-> listener]

\* A step of on_change with a path through the entries that returned.
RegistersThroughEntries ==
    /\ last'.op = "on_change"
    /\ last'.key \in EntryPaths
    /\ last'.err = "none"
    /\ last' # last

\* Every controller holds, under the final field, one more listener for
\* each entry that leads to it, and nothing else has changed.
RegisteredOnReached(key, final) ==
    /\ listeners' = listeners
    /\ \E func \in Callbacks : \A id \in ChildIds :
            childListeners'[id] =
                [childListeners[id] EXCEPT
                    ![final] = @ \o Copies(Listener(func, NoArgs), TimesReached(id, key))]

\* C19: on_change with a dot path through a list of controllers registers
\* the callback under the final field on the controller reached from every
\* element the list has at registration; a controller that enters the list
\* later gets no listener from that call.
C19_RegistersOnListElements ==
    [][/\ RegistersThroughEntries
            => RegisteredOnReached(last'.key, Split(last'.key)[Len(Split(last'.key))])
       /\ last'.op = "setattr" => childListeners' = childListeners]_vars

\* A path through a list of two controllers registered on both.
C19_Witness ==
    /\ last.op = "on_change"
    /\ last.key = "entries.name"
    /\ last.err = "none"
    /\ Len(attrs["entries"].l) = 2
    /\ \A i \in 1..2 : childListeners[attrs["entries"].l[i].s]["name"] # <<>>

\* A controller put into the list after a registration through the list.
C19_WitnessAddedLater ==
    /\ last.op = "setattr"
    /\ attrs["entries"] = ListValue(<<Record1, Record2>>)
    /\ childListeners["r1"]["name"] # <<>>
    /\ childListeners["r2"]["name"] = <<>>

\* C20: on_change with a dot path of which a segment is not a declared
\* field of the controllers in scope fails and has changed no listener
\* registry of any controller.
C20_FailedPathRegistersNothing ==
    [][(last'.op = "on_change" /\ last'.err # "none")
        => (listeners' = listeners /\ childListeners' = childListeners)]_vars

\* The last call was off_change('*').
ClearedAll == last.op = "off_change" /\ last.key = "*"

\* C21: off_change('*') succeeds and leaves no registration on any field,
\* whichever fields had listeners, so that no later dispatch calls a
\* callback.
C21_WildcardClearsAll ==
    ClearedAll => (last.err = "none" /\ \A k \in Keys(cls) : listeners[k] = <<>>)

\* The last call was _update_model_collection, and the fields it named.
CollectionUpdated == last.op = "_update_model_collection"

Named == {last.keys[i] : i \in 1..Len(last.keys)}

\* The calls owed to the listeners of the fields ks, field after field.
RECURSIVE OwedFor(_)
OwedFor(ks) ==
    IF ks = <<>> THEN <<>>
    ELSE [i \in 1..Len(listeners[Head(ks)]) |-> CallOwed(listeners[Head(ks)][i], Head(ks))]
            \o OwedFor(Tail(ks))

\* The step left every field that the call did not name as it was.
OnlyNamedDerived == \A k \in DataKeys : k \notin Named' => data'[k] = data[k]

\* A Dict field took the instruction: the added key is stored, the removed
\* one is gone.
InstructionApplied ==
    \A k \in Named :
        RuleOf(k).type.kind = "dict"
            => /\ last.instruction.action = "add" => last.instruction.key \in DOMAIN data[k].d
               /\ last.instruction.action = "remove"
                    => last.instruction.key \notin DOMAIN data[k].d

\* The named fields, and no other, were derived and dispatched, every
\* listener of them called once with the instruction of the call.
NamedDispatched ==
    /\ last.derived = Named
    /\ last.dispatched = Named
    /\ last.calls = OwedFor(last.keys)
    /\ InstructionApplied

\* C22 as stated: every _update_model_collection(key, instruction) derives
\* the named fields only, with the instruction, and then calls each
\* listener of exactly those fields once with that instruction.
C22_EveryUpdate ==
    [][CollectionUpdated' => (OnlyNamedDerived /\ NamedDispatched')]_vars

\* C22 amended: the same for a call in which update_key raises nothing; a
\* call in which it raises changes no field that was not named and calls no
\* listener.
C22_ReturnedUpdate ==
    [][CollectionUpdated'
        => /\ OnlyNamedDerived
           /\ last'.err = "none" => NamedDispatched'
           /\ last'.err # "none" => (last'.calls = <<>> /\ last'.dispatched = {})]_vars

\* Two fields updated in one call, the listener of each called with the
\* instruction.
C22_Witness ==
    /\ CollectionUpdated
    /\ last.err = "none"
    /\ Len(last.keys) = 2
    /\ Len(last.calls) = 2
    /\ \A i \in 1..2 : last.calls[i].instruction = last.instruction

\* One field updated and its listener called, another field's listener not.
C22_WitnessOneField ==
    /\ CollectionUpdated
    /\ last.err = "none"
    /\ Len(last.keys) = 1
    /\ Len(last.calls) = 1
    /\ \E k \in Keys(cls) \ Named : listeners[k] # <<>>

\* The last call was an assignment to a bound attribute.
AssignedBound == last.op = "setattr_nested" /\ InBindings(Bindings(cls, order), last.key)

\* C23: an assignment to a bound attribute terminates also when a listener
\* assigns the attribute again: the nesting of assignments stays below the
\* depth at which the interpreter gives up, and the assignment is not ended
\* by the interpreter's RuntimeError.
C23_DispatchBounded ==
    AssignedBound => (last.depth < MaxDepth /\ last.err # "RuntimeError")

\* C24: restore(data_store, model) builds a controller around the model's
\* current values: when it returns, every declared field of the model holds
\* the value it held before the call.
C24_RestoreKeepsValues ==
    [][(last'.op = "restore" /\ last'.err = "none")
        => \A k \in Keys(cls) : data'[k] = data[k]]_vars

\* The list of the current values of the attributes a rule is bound to.
BoundValues(binding) ==
    ListValue([i \in 1..Len(binding.names) |-> attrs[binding.names[i]]])

\* update_key was the last call, for a field bound to several attributes
\* that are all set.
UpdatedMultiBound ==
    /\ last.op = "update_key"
    /\ last.key \in Keys(cls)
    /\ RuleOf(last.key).binding.kind = "many"
    /\ \A i \in 1..Len(RuleOf(last.key).binding.names) :
            attrs[RuleOf(last.key).binding.names[i]] # Absent

\* C25: for a rule bound to several attributes, update_key takes the
\* ordered list of their current values as the source and stores what the
\* operation makes of that list.
C25_MultiBindingResolved ==
    UpdatedMultiBound
        => /\ last.err = "none"
           /\ data[last.key]
                = Apply(RuleOf(last.key).operation,
                        BoundValues(RuleOf(last.key).binding)).v

\* No name is given twice.
DistinctNames(args) == \A i, j \in 1..Len(args) : args[i] = args[j] => i = j

\* C26: EnumInt(n1, ..., nk) constructs, maps the i-th name to i, and
\* name_of(i) is the i-th name.
C26_EnumIntConstructs ==
    (enum.cls = "EnumInt" /\ enum.state \in {"made", "failed"} /\ DistinctNames(enum.args))
        => /\ enum.state = "made"
           /\ \A i \in 1..Len(enum.args) :
                /\ Enum__getitem__(enum.obj, enum.args[i]).v = IntValue(i)
                /\ name_of(enum.obj, IntValue(i)).v = StrValue(enum.args[i])

\* Every listener called by the last operation saw each derived field with
\* the value the operation left in it.
SeenDerived ==
    /\ Len(last.seen) = Len(last.calls)
    /\ \A i \in 1..Len(last.calls) : \A k \in last.derived : last.seen[i][k] = data[k]

\* C27: in one bound assignment every selected field is re-derived before
\* the first listener is called, so each listener called for the assignment
\* sees every affected field with its newly derived value.
C27_DerivedBeforeDispatch == last.op = "setattr" => SeenDerived

\* A listener called for the field that is derived first of two.
C27_Witness ==
    /\ RefreshCompleted
    /\ last.calls # <<>>
    /\ Cardinality(last.derived) = 2
    /\ last.calls[1].key = Restrict(order, last.derived)[1]

\* The names in a list of attribute names.
NamesOf(names) == {names[i] : i \in 1..Len(names)}

\* The fields whose rule names the attribute, alone or among several.
FieldsNaming(attr) ==
    {k \in Keys(cls) :
        \/ RuleOf(k).binding = One(attr)
        \/ (RuleOf(k).binding.kind = "many" /\ attr \in NamesOf(RuleOf(k).binding.names))}

\* C28: every attribute name that a rule refers to, each name of a binding
\* to several attributes included, is in the controller's bindings, so that
\* an assignment to it re-derives and dispatches the fields bound to it.
C28_ReferencedNamesBound ==
    (last.op = "setattr" /\ FieldsNaming(last.key) # {})
        => /\ InBindings(Bindings(cls, order), last.key)
           /\ RefreshCompleted
                => (FieldsNaming(last.key) \subseteq last.derived
                    /\ FieldsNaming(last.key) \subseteq last.dispatched)

\* The stored sequence of the key was the element-wise transform of the
\* source list before the source was changed by one step, and the changed
\* source can be regenerated.
SteppedInSync ==
    /\ last.op = "source_step"
    /\ data[last.key] # Absent
    /\ AllItemsValid(last.key, last.before.l)
    /\ data[last.key] = Transformed(last.key, last.before.l)
    /\ AllItemsValid(last.key, SourceOf(last.key).l)

\* The step applies to the key the instruction that matches the change of
\* its source.
MatchingInstruction ==
    /\ last'.op = "update_key"
    /\ last'.key = last.key
    /\ last'.instruction = last.instruction

\* C29: a List field in sync with its source whose source is changed by
\* one step (append, insert at i, delete at i) is in sync again after the
\* matching instruction (append, insert i, remove i): it holds what
\* update_key without instruction would store for the changed source.
C29_InstructionMatchesRegeneration ==
    [][(SteppedInSync /\ MatchingInstruction)
        => /\ last'.err = "none"
           /\ data'[last.key] = Transformed(last.key, SourceOf(last.key).l)]_vars

\* The field whose update ended a pass that selects by the attribute name:
\* the first field in rule order that the pass did not finish and whose rule
\* the name selects ("" when the rule test itself raised, or no field is
\* left).
RECURSIVE FailingField(_, _, _)
FailingField(ks, name, done) ==
    IF ks = <<>> THEN ""
    ELSE IF Head(ks) \in done \/ MatchesName(RuleOf(Head(ks)).binding, name) = "no"
         THEN FailingField(Tail(ks), name, done)
    ELSE IF MatchesName(RuleOf(Head(ks)).binding, name) = "yes" THEN Head(ks)
    ELSE ""

\* The assignment controller.key = value ended with the type error of a
\* field's update.
TypeMismatchOn(key, value) ==
    /\ SetAttr(key, value)
    /\ last'.err = "TypeError"
    /\ FailingField(order, key, last'.derived) # ""

\* C30: when an assignment to a bound attribute raises the type-mismatch
\* error, the attribute holds the new value, the failing field's stored
\* value is the one it had before, and no listener has been called.
C30_FailedAssignmentNotRolledBack ==
    [][\A key \in ClassAttrs(cls) : \A value \in AttrValues(key) :
          TypeMismatchOn(key, value)
              => /\ attrs'[key] = value
                 /\ data'[FailingField(order, key, last'.derived)]
                        = data[FailingField(order, key, last'.derived)]
                 /\ last'.calls = <<>>]_vars

\* The same with the stored value left out: the attribute holds the new
\* value and no listener has been called.
C30_AttributeSetNoListener ==
    [][\A key \in ClassAttrs(cls) : \A value \in AttrValues(key) :
          TypeMismatchOn(key, value)
              => /\ attrs'[key] = value
                 /\ last'.calls = <<>>]_vars

\* The same for fields that are not a Collection.Dict.
C30_OtherFieldsKeepValue ==
    [][\A key \in ClassAttrs(cls) : \A value \in AttrValues(key) :
          (/\ TypeMismatchOn(key, value)
           /\ RuleOf(FailingField(order, key, last'.derived)).type.kind # "dict")
              => data'[FailingField(order, key, last'.derived)]
                    = data[FailingField(order, key, last'.derived)]]_vars

\* The calls a refresh that nothing interrupts makes after the last
\* assignment derived its fields.
CallsOwed == _call_listener(listeners, Restrict(order, last.derived), NoInstruction)

\* The last assignment's refresh was left by an exception raised while the
\* fields were derived: no listener was called.
RaisedInDerivation == last.raised # "none" /\ last.calls = <<>>

\* The last assignment's refresh was left by an exception a listener
\* raised: the calls made end with the first callback that raises, and the
\* listeners after it were not called.
RaisedByListener ==
    /\ last.raised # "none"
    /\ last.calls # <<>>
    /\ Raises(last.calls[Len(last.calls)].cb) = last.raised
    /\ \A i \in 1..(Len(last.calls) - 1) : Raises(last.calls[i].cb) = "none"
    /\ last.calls = SubSeq(CallsOwed, 1, Len(last.calls))

\* The fields the pass had not reached when the exception was raised.
NotReached(key, derived) ==
    Keys(cls) \ (derived \cup {FailingField(order, key, derived)})

\* C31: an AttributeError or NameError raised inside the refresh of a bound
\* assignment, by an operation or by a listener, is suppressed: the
\* assignment returns with the attribute set, the fields not yet derived
\* keep their values and the listeners not yet called are not called; a
\* TypeError or ValueError leaves the assignment.
C31_SwallowsAttributeAndNameErrors ==
    [][\A key \in ClassAttrs(cls) : \A value \in AttrValues(key) :
          SetAttrRaising(key, value)
              => /\ attrs'[key] = value
                 /\ last'.raised \in {"AttributeError", "NameError"} => last'.err = "none"
                 /\ last'.raised \in {"TypeError", "ValueError"}
                        => last'.err = last'.raised
                 /\ last'.raised # "none"
                        => \/ /\ RaisedInDerivation'
                              /\ \A k \in NotReached(key, last'.derived) : data'[k] = data[k]
                           \/ RaisedByListener']_vars

\* A listener raised AttributeError, the assignment returned, and a listener
\* registered after it was not called.
C31_Witness ==
    /\ last.op = "setattr_raising"
    /\ last.raised = "AttributeError"
    /\ last.err = "none"
    /\ RaisedByListener
    /\ Len(last.calls) < Len(CallsOwed)

\* An operation raised NameError after one field was derived and before
\* another was reached, and the assignment returned.
C31_WitnessNameErrorInDerivation ==
    /\ last.op = "setattr_raising"
    /\ last.raised = "NameError"
    /\ last.err = "none"
    /\ RaisedInDerivation
    /\ last.derived # {}
    /\ NotReached(last.key, last.derived) # {}
    /\ Registered(listeners) > 0

\* A listener raised ValueError and the writer got it.
C31_WitnessValueErrorPropagates ==
    /\ last.op = "setattr_raising"
    /\ last.raised = "ValueError"
    /\ last.err = "ValueError"
    /\ RaisedByListener

\* A field's update raised TypeError and the writer got it.
C31_WitnessTypeErrorPropagates ==
    /\ last.op = "setattr_raising"
    /\ last.raised = "TypeError"
    /\ last.err = "TypeError"
    /\ RaisedInDerivation

\* The operation of a field raised AttributeError after another field was
\* derived, and the assignment returned with no listener called.
C31_WitnessAttributeErrorInDerivation ==
    /\ last.op = "setattr_raising"
    /\ last.raised = "AttributeError"
    /\ last.err = "none"
    /\ RaisedInDerivation
    /\ last.derived # {}
    /\ Registered(listeners) > 0

====
